---- MODULE Spec2Model ----
(***************************************************************************)
(* Readiness / fatigue / training-load scoring pipeline and the Garmin     *)
(* ingestion runs of Garmin_Training_opti.                                 *)
(*                                                                         *)
(* The scoring functions are pure: each is an operator, and an action per  *)
(* function applies it to inputs drawn from small sets and records the     *)
(* call (function, arguments, result) in the variable `call`.              *)
(* The ingestion runs (worker jobs, HTTP trigger, command-line script) are *)
(* processes over a shared database and the advisory lock.                 *)
(***************************************************************************)
EXTENDS Integers, Sequences, FiniteSets, TLC

VARIABLES
    call,          \* the call of a scoring function: [fn, args, ret], or NoCall
    pc,            \* ingestion runs: position of each run in its function
    lock_holder,   \* the run whose database session holds advisory lock 1, or None
    lock_acquired, \* local variable lock_acquired of each run
    fetched,       \* activity summaries Garmin returned to each run, not yet handled
    db_activities, \* table activities: rows [garmin_id, run, committed]
    sync_jobs,     \* the SyncJob row of each run: [status, stored], or None
    outcome,       \* how the last run of each entry point ended
    computed_metrics,   \* table computed_metrics: rows [date, values, session, committed, update]
    snapshot,           \* the number of the committed activity and health snapshot
    session,            \* each caller of MetricsService: its place and local variables
    active_connections, \* ConnectionManager.active_connections
    accepted,           \* how many websockets the endpoint has accepted
    broadcast           \* each call of ConnectionManager.broadcast: its place and locals

syncVars == <<pc, lock_holder, lock_acquired, fetched, db_activities, sync_jobs, outcome>>
metricsVars == <<computed_metrics, snapshot, session>>
wsVars == <<active_connections, accepted, broadcast>>
vars == <<call, syncVars, metricsVars, wsVars>>

-----------------------------------------------------------------------------
(* Python's None and optional values: None is the empty tuple, a present   *)
(* value x is <<x>>.                                                       *)
None == <<>>
Some(x) == <<x>>
IsNone(o) == o = <<>>
Val(o) == o[1]

Max2(a, b) == IF a >= b THEN a ELSE b
Min2(a, b) == IF a <= b THEN a ELSE b

-----------------------------------------------------------------------------
(* Natural numbers of any size as sequences of limbs in base 2^10, least   *)
(* significant limb first, without high zero limbs.  They carry the 53-bit *)
(* significands of Python floats (IEEE-754 binary64).                      *)

LimbBase == 2^10

LGet(a, i) == IF i \in 1..Len(a) THEN a[i] ELSE 0

RECURSIVE LTrim(_)
LTrim(a) == IF a = <<>> THEN <<>>
            ELSE IF a[Len(a)] = 0 THEN LTrim(SubSeq(a, 1, Len(a) - 1))
            ELSE a

RECURSIVE LFromNat(_)
LFromNat(n) == IF n = 0 THEN <<>> ELSE <<n % LimbBase>> \o LFromNat(n \div LimbBase)

RECURSIVE LToNat(_)
LToNat(a) == IF a = <<>> THEN 0 ELSE a[1] + LimbBase * LToNat(Tail(a))

\* column values (possibly negative or >= LimbBase) to limbs
RECURSIVE LCarry(_, _, _)
LCarry(c, i, carry) ==
    IF i > Len(c) THEN LFromNat(carry)
    ELSE <<(c[i] + carry) % LimbBase>> \o LCarry(c, i + 1, (c[i] + carry) \div LimbBase)

LAdd(a, b) == LTrim(LCarry([i \in 1..Max2(Len(a), Len(b)) |-> LGet(a, i) + LGet(b, i)], 1, 0))

\* a - b for a >= b
LSub(a, b) == LTrim(LCarry([i \in 1..Len(a) |-> a[i] - LGet(b, i)], 1, 0))

RECURSIVE LColumn(_, _, _, _)
LColumn(a, b, k, i) ==
    IF i > Len(a) THEN 0 ELSE a[i] * LGet(b, k + 1 - i) + LColumn(a, b, k, i + 1)

LMul(a, b) ==
    IF a = <<>> \/ b = <<>> THEN <<>>
    ELSE LTrim(LCarry([k \in 1..(Len(a) + Len(b)) |-> LColumn(a, b, k, 1)], 1, 0))

RECURSIVE LCmpFrom(_, _, _)
LCmpFrom(a, b, i) ==
    IF i = 0 THEN 0
    ELSE IF a[i] # b[i] THEN (IF a[i] > b[i] THEN 1 ELSE -1)
    ELSE LCmpFrom(a, b, i - 1)

\* -1, 0, 1 as a < b, a = b, a > b
LCmp(a, b) ==
    IF Len(a) # Len(b) THEN (IF Len(a) > Len(b) THEN 1 ELSE -1)
    ELSE LCmpFrom(a, b, Len(a))

LPow2(s) == [i \in 1..(s \div 10) |-> 0] \o <<2^(s % 10)>>

LShl(a, s) == LMul(a, LPow2(s))

\* floor(a / 2^s)
LShr(a, s) ==
    LET drop == s \div 10
        d    == 2^(s % 10)
    IN  LTrim([i \in 1..Max2(0, Len(a) - drop) |->
                  (a[i + drop] \div d) + (LGet(a, i + drop + 1) % d) * (LimbBase \div d)])

LBitLen(a) ==
    IF a = <<>> THEN 0
    ELSE 10 * (Len(a) - 1) + (CHOOSE n \in 1..10 : 2^(n - 1) <= a[Len(a)] /\ a[Len(a)] < 2^n)

\* the largest digit q with q * b <= r, for r < b * LimbBase: the quotient of
\* the leading limbs is q or q + 1
RECURSIVE LQuotFix(_, _, _)
LQuotFix(r, b, q) ==
    IF LCmp(LMul(b, LFromNat(q)), r) <= 0 THEN q ELSE LQuotFix(r, b, q - 1)

LQuotDigit(r, b) ==
    LET n  == Len(b)
        bt == b[n] * LimbBase + LGet(b, n - 1)
        rt == (LGet(r, n + 1) * LimbBase + LGet(r, n)) * LimbBase + LGet(r, n - 1)
    IN  LQuotFix(r, b, Min2(LimbBase - 1, rt \div bt))

\* long division, limb i of a down to limb 1: <<quotient, remainder>>.
\* Each step keeps one quotient digit per limb handled and a remainder below b.
RECURSIVE LDivModFrom(_, _, _, _, _)
LDivModCheck(a, b, i, q, r) ==
    IF LCmp(r, b) < 0 /\ Len(q) = Len(a) - i THEN LDivModFrom(a, b, i, q, r) ELSE <<>>
LDivModDigit(a, b, i, q, r1, qd) ==
    LDivModCheck(a, b, i - 1, <<qd>> \o q, LSub(r1, LMul(b, LFromNat(qd))))
LDivModFrom(a, b, i, q, r) ==
    IF i = 0 THEN <<LTrim(q), r>>
    ELSE LDivModDigit(a, b, i, q, LTrim(<<a[i]>> \o r), LQuotDigit(LTrim(<<a[i]>> \o r), b))

LDivMod(a, b) == LDivModFrom(a, b, Len(a), <<>>, <<>>)

-----------------------------------------------------------------------------
(* Non-negative Python floats: [m, e] is m * 2^e with 2^52 <= m < 2^53 (or *)
(* m = 0, e = 0).  Every operation rounds its exact result to nearest,     *)
(* ties to even, as binary64 does.  Exponent overflow, underflow and       *)
(* negative values do not occur in the functions modelled with it.         *)

RoundNearestEven(M, E) ==
    LET L == LBitLen(M)
    IN  IF M = <<>> THEN [m |-> <<>>, e |-> 0]
        ELSE IF L <= 53 THEN [m |-> LShl(M, 53 - L), e |-> E - (53 - L)]
        ELSE LET k    == L - 53
                 kept == LShr(M, k)
                 c    == LCmp(LSub(M, LShl(kept, k)), LPow2(k - 1))
                 up   == c > 0 \/ (c = 0 /\ kept[1] % 2 = 1)
                 r    == IF up THEN LAdd(kept, <<1>>) ELSE kept
             IN  IF LBitLen(r) > 53 THEN [m |-> LShr(r, 1), e |-> E + k + 1]
                 ELSE [m |-> r, e |-> E + k]

DFromNat(n) == RoundNearestEven(LFromNat(n), 0)

DAligned(a, b) ==
    LET e == IF a.m = <<>> THEN b.e ELSE IF b.m = <<>> THEN a.e ELSE Min2(a.e, b.e)
    IN  [x |-> IF a.m = <<>> THEN <<>> ELSE LShl(a.m, a.e - e),
         y |-> IF b.m = <<>> THEN <<>> ELSE LShl(b.m, b.e - e), e |-> e]

\* mantissas are normalised, so the exponent decides unless it is equal
DCmp(a, b) ==
    IF a.m = <<>> \/ b.m = <<>> THEN LCmp(a.m, b.m)
    ELSE IF a.e # b.e THEN (IF a.e > b.e THEN 1 ELSE -1)
    ELSE LCmp(a.m, b.m)
DLt(a, b) == DCmp(a, b) < 0
DLe(a, b) == DCmp(a, b) <= 0

DAdd(a, b) ==
    CHOOSE r \in {RoundNearestEven(LAdd(al.x, al.y), al.e) : al \in {DAligned(a, b)}} : TRUE
\* a - b for a >= b
DSub(a, b) ==
    CHOOSE r \in {RoundNearestEven(LSub(al.x, al.y), al.e) : al \in {DAligned(a, b)}} : TRUE
DMul(a, b) == RoundNearestEven(LMul(a.m, b.m), a.e + b.e)

\* a / b for b > 0: a quotient of 56 or 57 bits, and a sticky bit for the remainder
DDiv(a, b) ==
    IF a.m = <<>> THEN a
    ELSE CHOOSE r \in {IF qr[2] = <<>> THEN RoundNearestEven(qr[1], a.e - b.e - 56)
                       ELSE RoundNearestEven(LAdd(LShl(qr[1], 1), <<1>>), a.e - b.e - 57)
                       : qr \in {LDivMod(LShl(a.m, 56), b.m)}} : TRUE

\* the float a decimal literal n/d denotes (correctly rounded)
DLit(n, d) == DDiv(DFromNat(n), DFromNat(d))

\* floor(x * k) as an integer
DFloorTimes(x, k) ==
    LET M == LMul(x.m, LFromNat(k))
    IN  LToNat(IF x.e >= 0 THEN LShl(M, x.e) ELSE LShr(M, 0 - x.e))

-----------------------------------------------------------------------------
(* readiness_v2.py: ACWR penalty                                           *)

\* the float literals of the source, written in hundredths
Float ==
    [n \in {0, 10, 20, 30, 40, 50, 60, 65, 70, 75, 80, 85, 95, 100,
            130, 140, 150, 160, 170, 180, 200, 210, 250, 300,
            500, 1000, 2000, 2500} |-> DLit(n, 100)]

calculate_acwr_penalty(acwr) ==
    LET DMin(a, b) == IF DLt(b, a) THEN b ELSE a
    IN  IF DLt(acwr, Float[80]) THEN Float[500]
        ELSE IF DLe(acwr, Float[130]) THEN Float[0]
        ELSE IF DLe(acwr, Float[150]) THEN DMul(DDiv(DSub(acwr, Float[130]), Float[20]), Float[1000])
        ELSE IF DLe(acwr, Float[200]) THEN DAdd(Float[1000], DMul(DDiv(DSub(acwr, Float[150]), Float[50]), Float[1000]))
        ELSE DMin(Float[2500], DAdd(Float[2000], DMul(DSub(acwr, Float[200]), Float[500])))

-----------------------------------------------------------------------------
(* Time is counted in hours; a datetime is a number of hours, its date the *)
(* number of whole days.  Scores are fixed-point: one readiness point is   *)
(* PointScale units, which holds every value the sampled inputs produce    *)
(* (thirds, 20ths to the third power, 100ths) exactly.                     *)

HoursPerDay == 24
PointScale == 3 * 20^3
Pts(n) == n * PointScale

DateOf(t) == t \div HoursPerDay
\* (today - activity_date).days
DaysAgo(today, activity_date) == (today - activity_date) \div HoursPerDay

\* dict.get(key, default)
DictGet(d, key, default) == IF key \in DOMAIN d THEN d[key] ELSE default

RECURSIVE SumSeq(_)
SumSeq(s) == IF s = <<>> THEN 0 ELSE Head(s) + SumSeq(Tail(s))

\* f"{x:.0f}": the nearest integer, ties to even
RoundHalfEven(x) ==
    LET q == x \div PointScale
        r == x % PointScale
    IN  IF 2 * r > PointScale \/ (2 * r = PointScale /\ q % 2 = 1) THEN q + 1 ELSE q

\* "positive" if c > 0 else "negative" if c < 0 else "neutral"
SignStatus(c) == IF c > 0 THEN "positive" ELSE IF c < 0 THEN "negative" ELSE "neutral"

-----------------------------------------------------------------------------
(* readiness.py (v1)                                                       *)

BASE_SCORE == 70
INTENSITY_IMPACT == [easy |-> 5, moderate |-> 15, hard |-> 30, max |-> 45]
\* in hundredths
DISCIPLINE_RECOVERY ==
    [strength |-> 45, hyrox |-> 40, run |-> 55, bike |-> 60, swim |-> 65, other |-> 50]

clamp_unbounded(value, min_val, max_val) == value
clamp(value, min_val, max_val) == Max2(min_val, Min2(value, max_val))

\* hrv in ms; the result in PointScale units
calculate_hrv_component(hrv_today, hrv_7day_avg) ==
    IF hrv_7day_avg = 0 THEN 0
    ELSE clamp(((hrv_today - hrv_7day_avg) * 75 * PointScale) \div hrv_7day_avg,
               Pts(-15), Pts(15))

\* hours in tenths
calculate_sleep_component(sleep_hours, sleep_target, sleep_score) ==
    LET sleep_component ==
            clamp(IF sleep_target > 0
                  THEN ((sleep_hours - sleep_target) * 40 * PointScale) \div sleep_target
                  ELSE 0, Pts(-20), Pts(20))
    IN  IF IsNone(sleep_score) THEN sleep_component
        ELSE IF Val(sleep_score) >= 80 THEN sleep_component + Pts(3)
        ELSE IF Val(sleep_score) < 50 THEN sleep_component - Pts(5)
        ELSE sleep_component

body_battery_from_zero(body_battery_morning) ==
    IF IsNone(body_battery_morning) THEN 0
    ELSE clamp((Val(body_battery_morning) * 10 * PointScale) \div 30, Pts(-10), Pts(10))
calculate_body_battery_component(body_battery_morning) ==
    IF IsNone(body_battery_morning) THEN 0
    ELSE clamp(((Val(body_battery_morning) - 70) * 10 * PointScale) \div 30, Pts(-10), Pts(10))

calculate_recent_training_fatigue(activities, today) ==
    LET \* the loop body of calculate_recent_training_fatigue: one activity's fatigue_contribution
        recent_fatigue_contribution(activity) ==
            IF IsNone(activity.started_at) THEN 0
            ELSE LET days_ago == DaysAgo(today, Val(activity.started_at))
                 IN  IF days_ago <= 0 \/ days_ago > 3 THEN 0
                     ELSE DictGet(INTENSITY_IMPACT, activity.intensity_zone, 15)
                          * (DictGet(DISCIPLINE_RECOVERY, activity.discipline, 50) \div 5) ^ days_ago
                          * (PointScale \div 20 ^ days_ago)
    IN  clamp(SumSeq([i \in 1..Len(activities) |->
                         recent_fatigue_contribution(activities[i])]), 0, Pts(40))

calculate_trend_adjustment(avg_readiness_3_days) ==
    IF avg_readiness_3_days < 50 THEN -5
    ELSE IF avg_readiness_3_days > 75 THEN 3
    ELSE 0

get_readiness_category(score) ==
    IF score >= 85 THEN "high"
    ELSE IF score >= 70 THEN "moderate"
    ELSE IF score >= 55 THEN "low"
    ELSE IF score >= 40 THEN "recovery"
    ELSE "rest"

\* a factor entry: the name, the number its value string shows, and the status
Factor(name, value, status) == [name |-> name, value |-> value, status |-> status]

calculate_readiness(hrv_today, hrv_7day_avg, sleep_hours, sleep_target, sleep_score, body_battery_morning, recent_activities, avg_readiness_3_days, today) ==
    LET \* readiness.py 179-203: the factor of the first activity 1 to 3 days old
        recent_activity_factor(recent_fatigue) ==
            LET \* str.capitalize() on the discipline names
                Capitalize(s) ==
                    CASE s = "run" -> "Run" [] s = "bike" -> "Bike" [] s = "swim" -> "Swim"
                      [] s = "strength" -> "Strength" [] s = "hyrox" -> "Hyrox" [] s = "other" -> "Other"
                      [] s = "yoga" -> "Yoga" [] s = "easy" -> "Easy" [] s = "moderate" -> "Moderate"
                      [] s = "hard" -> "Hard" [] s = "max" -> "Max" [] OTHER -> s
            IN  LET hits == {i \in 1..Len(recent_activities) :
                                /\ ~IsNone(recent_activities[i].started_at)
                                /\ DaysAgo(today, Val(recent_activities[i].started_at)) \in 1..3}
                IN  IF hits = {} THEN <<>>
                    ELSE LET i == CHOOSE j \in hits : \A k \in hits : j <= k
                             days_ago == DaysAgo(today, Val(recent_activities[i].started_at))
                         IN  <<Factor(Capitalize(recent_activities[i].discipline) \o " ("
                                        \o ToString(days_ago) \o " day"
                                        \o (IF days_ago > 1 THEN "s" ELSE "") \o " ago)",
                                      0 - RoundHalfEven(recent_fatigue), "negative")>>
    IN  LET has_hrv == ~IsNone(hrv_today) /\ ~IsNone(hrv_7day_avg) /\ Val(hrv_7day_avg) > 0
            hrv_component == calculate_hrv_component(Val(hrv_today), Val(hrv_7day_avg))
            sleep_component ==
                calculate_sleep_component(Val(sleep_hours), sleep_target, sleep_score)
            bb_component == calculate_body_battery_component(body_battery_morning)
            recent_fatigue == calculate_recent_training_fatigue(recent_activities, today)
            trend_adjustment == calculate_trend_adjustment(avg_readiness_3_days)
            raw == Pts(BASE_SCORE)
                   + (IF has_hrv THEN hrv_component ELSE 0)
                   + (IF ~IsNone(sleep_hours) THEN sleep_component ELSE 0)
                   + (IF ~IsNone(body_battery_morning) THEN bb_component ELSE 0)
                   - (IF recent_fatigue > 0 THEN recent_fatigue ELSE 0)
                   + Pts(trend_adjustment)
            score == clamp(raw, 0, Pts(100)) \div PointScale
            factors ==
                (IF has_hrv
                 THEN <<Factor("HRV", RoundHalfEven(hrv_component), SignStatus(hrv_component))>>
                 ELSE <<>>)
                \o (IF ~IsNone(sleep_hours)
                    THEN <<Factor("Sleep", RoundHalfEven(sleep_component),
                                  SignStatus(sleep_component))>>
                    ELSE <<>>)
                \o (IF ~IsNone(body_battery_morning)
                    THEN <<Factor("Body Battery", RoundHalfEven(bb_component),
                                  SignStatus(bb_component))>>
                    ELSE <<>>)
                \o (IF recent_fatigue > 0
                    THEN recent_activity_factor(recent_fatigue)
                    ELSE <<>>)
        IN  [score |-> score, category |-> get_readiness_category(score), factors |-> factors]

-----------------------------------------------------------------------------
(* readiness_v2.py                                                         *)

\* hours in tenths
sleep_trend_unclamped(sleep_hours_3_days, sleep_target) ==
    ((SumSeq(sleep_hours_3_days) - sleep_target * 3) * PointScale) \div 3
calculate_sleep_trend_component(sleep_hours_3_days, sleep_target) ==
    IF Len(sleep_hours_3_days) < 3 THEN 0
    ELSE LET total_sleep == SumSeq(sleep_hours_3_days)
             total_target == sleep_target * 3
             sleep_debt == total_sleep - total_target
         IN  Max2(Pts(-10), Min2(Pts(10), (sleep_debt * PointScale) \div 3))

event_modifier_any_priority(days_to_event, event_priority) ==
    IF IsNone(days_to_event) THEN 0 ELSE IF Val(days_to_event) <= 3 THEN 10 ELSE 0
calculate_event_proximity_modifier(days_to_event, event_priority) ==
    IF IsNone(days_to_event) THEN 0
    ELSE IF event_priority = "A" /\ Val(days_to_event) <= 3 THEN 10
    ELSE IF event_priority = "A" /\ Val(days_to_event) <= 7 THEN 5
    ELSE IF event_priority = "A" /\ Val(days_to_event) <= 14 THEN -5
    ELSE IF event_priority = "B" /\ Val(days_to_event) <= 3 THEN 5
    ELSE 0

INTENSITY_IMPACT_V2 == [easy |-> 3, moderate |-> 10, hard |-> 20, max |-> 30]

\* the activities of the day day_offset days before today, and their summed impact
day_fatigue_v2(activities, today, day_offset) ==
    SumSeq([i \in 1..Len(activities) |->
               IF /\ ~IsNone(activities[i].started_at)
                  /\ DateOf(Val(activities[i].started_at))
                         = DateOf(today - day_offset * HoursPerDay)
               THEN DictGet(INTENSITY_IMPACT_V2, activities[i].intensity_zone, 3)
               ELSE 0])

recent_fatigue_v2_uncapped(activities, today, lookback_days) ==
    SumSeq([k \in 1..lookback_days |->
               day_fatigue_v2(activities, today, k - 1) * Pts(1)])
calculate_recent_training_fatigue_v2(activities, today, lookback_days) ==
    Min2(Pts(30),
         SumSeq([k \in 1..lookback_days |->
                    day_fatigue_v2(activities, today, k - 1)
                    * Max2(25, 100 - (k - 1) * 15) * (PointScale \div 100)]))

get_readiness_category_v2(score) ==
    IF score >= 80 THEN "high"
    ELSE IF score >= 65 THEN "moderate"
    ELSE IF score >= 50 THEN "low"
    ELSE IF score >= 35 THEN "recovery"
    ELSE "rest"

\* readiness_v2.py 361-387: the event block, which the source holds twice
event_factors(event_modifier) ==
    IF event_modifier # 0
    THEN <<Factor("Event Proximity", event_modifier,
                  IF event_modifier > 0 THEN "positive" ELSE "warning")>>
    ELSE <<>>

calculate_readiness_v2(hrv_today, hrv_7day_avg, sleep_hours, sleep_target, sleep_score, sleep_hours_3_days, body_battery_morning, recent_activities, avg_readiness_3_days, today, acwr, days_to_next_event, next_event_priority) ==
    LET has_hrv == ~IsNone(hrv_today) /\ ~IsNone(hrv_7day_avg) /\ Val(hrv_7day_avg) > 0
        hrv_component ==
            Max2(Pts(-15), Min2(Pts(15),
                ((Val(hrv_today) - Val(hrv_7day_avg)) * 75 * PointScale)
                    \div Val(hrv_7day_avg)))
        sleep_base ==
            Max2(Pts(-20), Min2(Pts(20),
                IF sleep_target > 0
                THEN ((Val(sleep_hours) - sleep_target) * 40 * PointScale) \div sleep_target
                ELSE 0))
        sleep_component ==
            IF IsNone(sleep_score) THEN sleep_base
            ELSE IF Val(sleep_score) >= 80 THEN sleep_base + Pts(3)
            ELSE IF Val(sleep_score) < 50 THEN sleep_base - Pts(5)
            ELSE sleep_base
        sleep_trend ==
            IF Len(sleep_hours_3_days) >= 3
            THEN calculate_sleep_trend_component(sleep_hours_3_days, sleep_target)
            ELSE 0
        bb_component ==
            Max2(Pts(-10), Min2(Pts(10),
                ((Val(body_battery_morning) - 70) * 10 * PointScale) \div 30))
        recent_fatigue == calculate_recent_training_fatigue_v2(recent_activities, today, 5)
        trend == IF avg_readiness_3_days < 50 THEN -5
                 ELSE IF avg_readiness_3_days > 75 THEN 3 ELSE 0
        event_modifier ==
            calculate_event_proximity_modifier(days_to_next_event, next_event_priority)
        raw(acwr_points) == Pts(70)
               + (IF has_hrv THEN hrv_component ELSE 0)
               + (IF ~IsNone(sleep_hours) THEN sleep_component ELSE 0)
               + sleep_trend
               + (IF ~IsNone(body_battery_morning) THEN bb_component ELSE 0)
               - (IF recent_fatigue > 0 THEN recent_fatigue ELSE 0)
               - acwr_points
               + Pts(trend)
               + Pts(event_modifier)
               + Pts(event_modifier)
        factors(acwr_penalty, acwr_points) ==
            (IF has_hrv
             THEN <<Factor("HRV", RoundHalfEven(hrv_component), SignStatus(hrv_component))>>
             ELSE <<>>)
            \o (IF ~IsNone(sleep_hours)
                THEN <<Factor("Sleep", RoundHalfEven(sleep_component),
                              SignStatus(sleep_component))>>
                ELSE <<>>)
            \o (IF sleep_trend # 0
                THEN <<Factor("Sleep Trend", RoundHalfEven(sleep_trend),
                              IF sleep_trend > 0 THEN "positive" ELSE "negative")>>
                ELSE <<>>)
            \o (IF ~IsNone(body_battery_morning)
                THEN <<Factor("Body Battery", RoundHalfEven(bb_component),
                              SignStatus(bb_component))>>
                ELSE <<>>)
            \o (IF recent_fatigue > 0
                THEN <<Factor("Recent Training", 0 - RoundHalfEven(recent_fatigue),
                              "negative")>>
                ELSE <<>>)
            \o (IF acwr_penalty.m # <<>>
                THEN <<Factor("ACWR", 0 - RoundHalfEven(acwr_points),
                              IF DLt(Float[500], acwr_penalty) THEN "negative" ELSE "warning")>>
                ELSE <<>>)
            \o (IF trend # 0
                THEN <<Factor("Trend", trend, IF trend > 0 THEN "positive" ELSE "negative")>>
                ELSE <<>>)
            \o event_factors(event_modifier)
            \o event_factors(event_modifier)
        result(acwr_penalty) ==
            LET acwr_points == DFloorTimes(acwr_penalty, PointScale)
                score == Max2(0, Min2(Pts(100), raw(acwr_points))) \div PointScale
            IN  [score |-> score, category |-> get_readiness_category_v2(score),
                 factors |-> factors(acwr_penalty, acwr_points)]
        \* the penalty is computed once and held in the local variable acwr_penalty
    IN  CHOOSE r \in {result(acwr_penalty) :
                         acwr_penalty \in {calculate_acwr_penalty(acwr)}} : TRUE

-----------------------------------------------------------------------------
(* Calls of the readiness functions.  Inputs are samples on which the      *)
(* fixed-point arithmetic is exact: HRV baselines 50 and 60 ms, the sleep  *)
(* target 7.5 h, activities around the morning of day 10.                  *)

NoCall == [fn |-> "none"]

MaxActs == 2
Today == 10 * HoursPerDay + 8

Act(started_at, discipline, intensity_zone) ==
    [started_at |-> started_at, discipline |-> discipline, intensity_zone |-> intensity_zone]

ActivityListsOf(S, n) == UNION {[1..k -> S] : k \in 0..n}

SleepTarget == 75

CalculateReadiness ==
    LET RecentSamples ==
            { Act(Some(Today - 26), "run", "max"),        \* yesterday morning, 1 day ago
              Act(Some(Today - 14), "bike", "easy"),      \* yesterday evening, 0 days ago
              Act(Some(Today - 1), "strength", "hard"),   \* today
              Act(Some(Today - 80), "yoga", "tempo"),     \* 3 days ago, names outside the tables
              Act(None, "swim", "moderate"),              \* undated
              Act(Some(Today + 30), "hyrox", "max") }     \* tomorrow
    IN  /\ call = NoCall
        /\ \E hrv \in {<<None, None>>, <<Some(50), None>>, <<None, Some(50)>>,
                        <<Some(50), Some(0)>>, <<Some(40), Some(50)>>, <<Some(61), Some(60)>>,
                        <<Some(80), Some(50)>>},
              sleep \in {<<None, None>>, <<Some(30), Some(40)>>, <<Some(75), None>>,
                         <<Some(81), Some(60)>>, <<Some(120), Some(85)>>},
              bb \in {None, Some(10), Some(76), Some(100)},
              acts \in ActivityListsOf(RecentSamples, MaxActs), avg \in {40, 60, 80} :
              call' = [fn |-> "calculate_readiness",
                       args |-> [hrv_today |-> hrv[1], hrv_7day_avg |-> hrv[2],
                                 sleep_hours |-> sleep[1], sleep_target |-> SleepTarget,
                                 sleep_score |-> sleep[2], body_battery_morning |-> bb,
                                 recent_activities |-> acts, avg_readiness_3_days |-> avg,
                                 today |-> Today],
                       ret |-> calculate_readiness(hrv[1], hrv[2], sleep[1], SleepTarget,
                                                   sleep[2], bb, acts, avg, Today)]
        /\ UNCHANGED <<syncVars, metricsVars, wsVars>>

CalculateReadinessV2 ==
    LET RecentListsV2 ==
            { <<Act(Some(Today - 14), "bike", "easy"), Act(Some(Today - 24 * 5), "run", "hard")>>,
              <<Act(Some(Today - 1), "strength", "max"), Act(Some(Today - 26), "run", "max")>>,
              <<Act(None, "swim", "moderate"), Act(Some(Today + 30), "hyrox", "max")>> }
    IN  /\ call = NoCall
        /\ \E hrv \in {<<None, None>>, <<Some(40), Some(50)>>, <<Some(80), Some(50)>>},
              sleep \in {<<None, None>>, <<Some(30), Some(40)>>, <<Some(120), Some(85)>>},
              trend3 \in {<<75, 75>>, <<75, 75, 75>>, <<30, 40, 30>>, <<90, 100, 95>>},
              bb \in {None, Some(10), Some(100)}, acts \in RecentListsV2, avg \in {40, 60, 80},
              acwr \in {Float[50], Float[100], Float[300]},
              event \in {<<None, "C">>, <<Some(3), "A">>, <<Some(10), "A">>, <<Some(2), "B">>} :
              call' = [fn |-> "calculate_readiness_v2",
                       args |-> [hrv_today |-> hrv[1], hrv_7day_avg |-> hrv[2],
                                 sleep_hours |-> sleep[1], sleep_target |-> SleepTarget,
                                 sleep_score |-> sleep[2], sleep_hours_3_days |-> trend3,
                                 body_battery_morning |-> bb, recent_activities |-> acts,
                                 avg_readiness_3_days |-> avg, today |-> Today, acwr |-> acwr,
                                 days_to_next_event |-> event[1],
                                 next_event_priority |-> event[2]],
                       ret |-> calculate_readiness_v2(hrv[1], hrv[2], sleep[1], SleepTarget,
                                                      sleep[2], trend3, bb, acts, avg, Today,
                                                      acwr, event[1], event[2])]
        /\ UNCHANGED <<syncVars, metricsVars, wsVars>>

\* calls of calculate_acwr_penalty on the grid 0.00, 0.05, ... of ratios
MaxAcwrTwentieths == 100

CalculateAcwrPenalty ==
    /\ call = NoCall
    /\ \E n \in 0..MaxAcwrTwentieths :
          call' = [fn |-> "calculate_acwr_penalty",
                   args |-> [acwr |-> DLit(n, 20)],
                   ret |-> calculate_acwr_penalty(DLit(n, 20))]
    /\ UNCHANGED <<syncVars, metricsVars, wsVars>>

\* direct calls of the three component functions of readiness_v2.py
CalculateEventProximityModifier ==
    /\ call = NoCall
    /\ \E days_to_event \in {None} \cup {Some(d) : d \in -1..16},
          event_priority \in {"A", "B", "C", "D"} :
          call' = [fn |-> "calculate_event_proximity_modifier",
                   args |-> [days_to_event |-> days_to_event,
                             event_priority |-> event_priority],
                   ret |-> calculate_event_proximity_modifier(days_to_event,
                                                              event_priority)]
    /\ UNCHANGED <<syncVars, metricsVars, wsVars>>

CalculateSleepTrendComponent ==
    /\ call = NoCall
    /\ \E sleep_hours_3_days \in UNION {[1..k -> {40, 70, 75, 81, 100}] : k \in 0..4} :
          call' = [fn |-> "calculate_sleep_trend_component",
                   args |-> [sleep_hours_3_days |-> sleep_hours_3_days,
                             sleep_target |-> SleepTarget],
                   ret |-> calculate_sleep_trend_component(sleep_hours_3_days,
                                                           SleepTarget)]
    /\ UNCHANGED <<syncVars, metricsVars, wsVars>>

CalculateRecentTrainingFatigueV2 ==
    /\ call = NoCall
    /\ \E activities \in ActivityListsOf(
              { Act(Some(Today - 1), "run", "easy"), Act(Some(Today + 2), "run", "max"),
                Act(Some(Today - 14), "bike", "max"), Act(Some(Today - 48), "yoga", "tempo"),
                Act(Some(Today - 4 * HoursPerDay), "swim", "hard"),
                Act(Some(Today - 5 * HoursPerDay), "run", "max"),
                Act(None, "swim", "moderate") }, MaxActs) :
          call' = [fn |-> "calculate_recent_training_fatigue_v2",
                   args |-> [activities |-> activities, today |-> Today],
                   ret |-> calculate_recent_training_fatigue_v2(activities, Today, 5)]
    /\ UNCHANGED <<syncVars, metricsVars, wsVars>>

-----------------------------------------------------------------------------
(* fatigue.py and training_load.py.  A fatigue value is a multiple of      *)
(* 1/FatigueScale, which holds intensity (20ths) x impact (10ths) x half   *)
(* hours x decay (20ths) to the 5th power exactly; the sums are carried by *)
(* the limb numbers and only the clamped result is an integer.             *)

\* in tenths
DISCIPLINE_IMPACT ==
    [strength |-> [upper |-> 8, lower |-> 8, cardio |-> 2, cns |-> 7],
     hyrox    |-> [upper |-> 6, lower |-> 9, cardio |-> 9, cns |-> 6],
     run      |-> [upper |-> 1, lower |-> 8, cardio |-> 8, cns |-> 3],
     bike     |-> [upper |-> 1, lower |-> 6, cardio |-> 7, cns |-> 2],
     swim     |-> [upper |-> 7, lower |-> 2, cardio |-> 6, cns |-> 2],
     other    |-> [upper |-> 3, lower |-> 3, cardio |-> 5, cns |-> 2]]
\* in twentieths
INTENSITY_FATIGUE == [easy |-> 2, moderate |-> 5, hard |-> 10, max |-> 16]
\* in twentieths
DECAY_RATES == [upper |-> 10, lower |-> 9, cardio |-> 12, cns |-> 10]

LookbackDefault == 5
FatigueScale == 20 * 10 * 2 * 20 ^ LookbackDefault

RECURSIVE LSum(_)
LSum(s) == IF s = <<>> THEN <<>> ELSE LAdd(Head(s), LSum(Tail(s)))

\* the clamp with no upper limit
clamp01_no_upper(value) == LToNat(value)

\* fatigue.py clamp(value) with its defaults 0 and 1
clamp01(value) ==
    LToNat(IF LCmp(value, LFromNat(FatigueScale)) > 0 THEN LFromNat(FatigueScale) ELSE value)

calculate_fatigue(activities, today, lookback_days) ==
    LET \* the loop body of calculate_fatigue: contribution of one activity to one dimension
        fatigue_contribution(activity, dimension) ==
            LET \* (today - activity_date).days within 0..lookback_days
                fatigue_counted ==
                    /\ ~IsNone(activity.started_at)
                    /\ DaysAgo(today, Val(activity.started_at)) >= 0
                    /\ DaysAgo(today, Val(activity.started_at)) <= lookback_days
            IN  IF ~fatigue_counted THEN <<>>
                ELSE LET days_ago == DaysAgo(today, Val(activity.started_at))
                         base == DictGet(INTENSITY_FATIGUE, activity.intensity_zone, 5)
                         duration == IF IsNone(activity.duration_minutes) THEN 60
                                     ELSE Val(activity.duration_minutes)
                         impact == DictGet(DISCIPLINE_IMPACT, activity.discipline, DISCIPLINE_IMPACT.other)
                     IN  LMul(LFromNat(base * impact[dimension] * (duration \div 30)),
                              LFromNat(DECAY_RATES[dimension] ^ days_ago * 20 ^ (LookbackDefault - days_ago)))
    IN  [dimension \in {"upper", "lower", "cardio", "cns"} |->
            clamp01(LSum([i \in 1..Len(activities) |->
                             fatigue_contribution(activities[i], dimension)]))]

\* start_date <= activity_date <= end_date with start_date = end_date - timedelta(days)
load_counted_any_date(activity, end_date, days) == ~IsNone(activity.started_at)
load_counted(activity, end_date, days) ==
    /\ ~IsNone(activity.started_at)
    /\ end_date - days * HoursPerDay <= Val(activity.started_at)
    /\ Val(activity.started_at) <= end_date

\* sum of activity.get("training_load", 0) or 0 over the counted activities
load_total(activities, end_date, days) ==
    SumSeq([i \in 1..Len(activities) |->
               IF load_counted(activities[i], end_date, days)
                  /\ ~IsNone(activities[i].training_load)
               THEN Val(activities[i].training_load) ELSE 0])

\* loads are in quarter points, so that the weekly average of 28 days is exact
LoadScale == 4
calculate_acute_load(activities, end_date, days) ==
    load_total(activities, end_date, days) * LoadScale
calculate_chronic_load(activities, end_date, days) ==
    (load_total(activities, end_date, days) * LoadScale) \div 4

LoadAct(started_at, discipline, intensity_zone, duration_minutes, training_load) ==
    [started_at |-> started_at, discipline |-> discipline, intensity_zone |-> intensity_zone,
     duration_minutes |-> duration_minutes, training_load |-> training_load]

\* activities at the edges of the 7-day, 28-day and 5-day windows that end at Today
LoadSamples ==
    { LoadAct(Some(Today), "hyrox", "max", Some(60), Some(100)),
      LoadAct(Some(Today + 1), "bike", "max", Some(60), Some(80)),
      LoadAct(Some(Today - 1), "strength", "max", Some(60), Some(50)),
      LoadAct(Some(Today - 7 * HoursPerDay), "swim", "easy", Some(30), Some(40)),
      LoadAct(Some(Today - 7 * HoursPerDay - 1), "run", "moderate", Some(90), Some(70)),
      LoadAct(Some(Today - 28 * HoursPerDay), "other", "easy", Some(0), Some(30)),
      LoadAct(Some(Today - 28 * HoursPerDay - 1), "run", "moderate", Some(60), Some(20)),
      LoadAct(None, "run", "hard", Some(60), Some(90)),
      LoadAct(Some(Today - 6 * HoursPerDay + 1), "yoga", "tempo", None, None),
      LoadAct(Some(Today - 6 * HoursPerDay), "bike", "hard", Some(60), Some(10)) }


CalculateFatigue ==
    /\ call = NoCall
    /\ \E acts \in ActivityListsOf(LoadSamples, MaxActs), lookback_days \in {0, LookbackDefault} :
          call' = [fn |-> "calculate_fatigue",
                   args |-> [activities |-> acts, today |-> Today,
                             lookback_days |-> lookback_days],
                   ret |-> calculate_fatigue(acts, Today, lookback_days)]
    /\ UNCHANGED <<syncVars, metricsVars, wsVars>>

CalculateAcuteLoad ==
    /\ call = NoCall
    /\ \E acts \in ActivityListsOf(LoadSamples, MaxActs) :
          call' = [fn |-> "calculate_acute_load",
                   args |-> [activities |-> acts, end_date |-> Today, days |-> 7],
                   ret |-> calculate_acute_load(acts, Today, 7)]
    /\ UNCHANGED <<syncVars, metricsVars, wsVars>>

CalculateChronicLoad ==
    /\ call = NoCall
    /\ \E acts \in ActivityListsOf(LoadSamples, MaxActs) :
          call' = [fn |-> "calculate_chronic_load",
                   args |-> [activities |-> acts, end_date |-> Today, days |-> 28],
                   ret |-> calculate_chronic_load(acts, Today, 28)]
    /\ UNCHANGED <<syncVars, metricsVars, wsVars>>

-----------------------------------------------------------------------------
(* sport_readiness.py.  The catalogue and the sampled arguments are        *)
(* written as decimal literals in hundredths; the program holds the floats *)
(* these literals denote and compares and adds those.                      *)

SPORT_REQUIREMENTS ==
    [easy_run |-> [min_readiness |-> 40, acwr_max |-> 250,
                   fatigue_limits |-> <<<<"lower", 80>>, <<"cardio", 80>>>>],
     moderate_run |-> [min_readiness |-> 55, acwr_max |-> 180,
                       fatigue_limits |-> <<<<"lower", 60>>, <<"cardio", 70>>>>],
     hard_run |-> [min_readiness |-> 70, acwr_max |-> 150,
                   fatigue_limits |-> <<<<"lower", 50>>, <<"cardio", 50>>, <<"cns", 60>>>>],
     easy_bike |-> [min_readiness |-> 35, acwr_max |-> 250,
                    fatigue_limits |-> <<<<"lower", 85>>, <<"cardio", 85>>>>],
     moderate_bike |-> [min_readiness |-> 50, acwr_max |-> 200,
                        fatigue_limits |-> <<<<"lower", 70>>, <<"cardio", 75>>>>],
     hyrox_intervals |-> [min_readiness |-> 75, acwr_max |-> 140,
                          fatigue_limits |-> <<<<"lower", 40>>, <<"upper", 50>>,
                                               <<"cardio", 50>>, <<"cns", 50>>>>],
     strength_heavy |-> [min_readiness |-> 65, acwr_max |-> 160,
                         fatigue_limits |-> <<<<"upper", 50>>, <<"lower", 50>>, <<"cns", 40>>>>],
     strength_light |-> [min_readiness |-> 45, acwr_max |-> 200,
                         fatigue_limits |-> <<<<"upper", 70>>, <<"lower", 70>>, <<"cns", 60>>>>],
     swim |-> [min_readiness |-> 40, acwr_max |-> 200,
               fatigue_limits |-> <<<<"upper", 70>>, <<"cardio", 75>>>>]]

\* a verdict in the making: the status and the blockers so far
Verdict(status, blockers) == [status |-> status, blockers |-> blockers]

\* sport_readiness.py 92-99 and 102-107: one check of a value against a ceiling, the
\* hard threshold being ceiling + margin; the blocker text is kept without its figures
tier_check_no_blocker(v, value, limit, margin, blocker) ==
    IF DLt(limit, value)
    THEN Verdict(IF v.status = "ready" THEN "caution" ELSE v.status, v.blockers)
    ELSE v
\* the two tiers the wrong way round: the hard threshold gives the milder status
tier_check_inverted(v, value, limit, margin, blocker) ==
    IF DLt(limit, value)
    THEN Verdict(IF DLt(DAdd(limit, margin), value)
                 THEN (IF v.status = "ready" THEN "caution" ELSE v.status)
                 ELSE "not_ready",
                 Append(v.blockers, blocker))
    ELSE v
tier_check(v, value, limit, margin, blocker) ==
    IF DLt(limit, value)
    THEN Verdict(IF DLt(DAdd(limit, margin), value) THEN "not_ready"
                 ELSE IF v.status = "ready" THEN "caution" ELSE v.status,
                 Append(v.blockers, blocker))
    ELSE v

\* the loop over requirements["fatigue_limits"].items(), from entry i on
RECURSIVE fatigue_checks(_, _, _, _)
fatigue_checks(v, limits, fatigue, i) ==
    IF i > Len(limits) THEN v
    ELSE fatigue_checks(tier_check(v, DictGet(fatigue, limits[i][1], Float[0]),
                                   Float[limits[i][2]], Float[10], limits[i][1] \o " fatigue"),
                        limits, fatigue, i + 1)

evaluate_sport_readiness(readiness_score, fatigue, acwr) ==
    LET \* the body of the loop over SPORT_REQUIREMENTS.items(): the verdict of one sport
        sport_verdict(requirements) ==
            tier_check(fatigue_checks(IF readiness_score < requirements.min_readiness
                                      THEN Verdict("not_ready", <<"Readiness">>)
                                      ELSE Verdict("ready", <<>>),
                                      requirements.fatigue_limits, fatigue, 1),
                       acwr, Float[requirements.acwr_max], Float[30], "ACWR")
    IN  [sport \in DOMAIN SPORT_REQUIREMENTS |->
            sport_verdict(SPORT_REQUIREMENTS[sport])]

\* the sport keys of one status, in the order of the catalogue
categorize_sports(sport_readiness) ==
    LET SportKeys == <<"easy_run", "moderate_run", "hard_run", "easy_bike", "moderate_bike",
                       "hyrox_intervals", "strength_heavy", "strength_light", "swim">>
    IN  LET Is(status) == SelectSeq(SportKeys, LAMBDA sport : sport \in DOMAIN sport_readiness
                                                   /\ sport_readiness[sport].status = status)
        IN  [ready |-> Is("ready"), caution |-> Is("caution"), not_ready |-> Is("not_ready")]

ScoreSamples == {30, 55, 100}
FatigueLiterals ==
    [upper : {30, 80}, lower : {30, 70, 80}, cardio : {30, 95}, cns : {30, 65}]
AcwrLiterals == {100, 170, 210, 300}
FloatVector(literal) == [dimension \in DOMAIN literal |-> Float[literal[dimension]]]

EvaluateSportReadiness ==
    /\ call = NoCall
    /\ \E readiness_score \in ScoreSamples, fatigue \in FatigueLiterals, acwr \in AcwrLiterals :
          call' = [fn |-> "evaluate_sport_readiness",
                   args |-> [readiness_score |-> readiness_score,
                             fatigue |-> FloatVector(fatigue), acwr |-> Float[acwr],
                             literal |-> [fatigue |-> fatigue, acwr |-> acwr]],
                   ret |-> evaluate_sport_readiness(readiness_score, FloatVector(fatigue),
                                                    Float[acwr])]
    /\ UNCHANGED <<syncVars, metricsVars, wsVars>>

CategorizeSports ==
    /\ call = NoCall
    /\ \E readiness_score \in ScoreSamples, fatigue \in FatigueLiterals, acwr \in AcwrLiterals :
          LET sport_readiness == evaluate_sport_readiness(readiness_score,
                                                          FloatVector(fatigue), Float[acwr])
          IN  call' = [fn |-> "categorize_sports",
                       args |-> [sport_readiness |-> sport_readiness],
                       ret |-> categorize_sports(sport_readiness)]
    /\ UNCHANGED <<syncVars, metricsVars, wsVars>>

-----------------------------------------------------------------------------
(* fatigue.py generate_guidance                                            *)

\* list.remove(item) guarded by `item in list`: drops the first occurrence
RECURSIVE Remove(_, _)
Remove(list, item) ==
    IF list = <<>> THEN <<>>
    ELSE IF Head(list) = item THEN Tail(list)
    ELSE <<Head(list)>> \o Remove(Tail(list), item)

\* list(set(items)): every item once; the order Python gives is arbitrary, the order
\* of first occurrence stands for it
RECURSIVE ListOfSet(_)
ListOfSet(items) ==
    CHOOSE list \in
        UNION {{IF given = <<>> \/ \E i \in 1..Len(rest) : rest[i] = given[Len(given)]
                THEN rest ELSE Append(rest, given[Len(given)])
                : rest \in {IF given = <<>> THEN <<>>
                            ELSE ListOfSet(SubSeq(given, 1, Len(given) - 1))}}
               : given \in {items}} : TRUE

\* fatigue.py 146: any(f > 0.7 for f in fatigue.values())
all_above(fatigue, threshold) == \A dimension \in DOMAIN fatigue : DLt(threshold, fatigue[dimension])
any_above(fatigue, threshold) == \E dimension \in DOMAIN fatigue : DLt(threshold, fatigue[dimension])

\* `extra` if the fatigue of `dimension` is above `threshold`, else nothing
IfAbove(fatigue, dimension, threshold, extra) ==
    IF DLt(threshold, fatigue[dimension]) THEN extra ELSE <<>>

\* the lists before the clean-up: [recommendation, avoid, suggested]
guidance_lists(fatigue, readiness_score) ==
    IF readiness_score >= 80
    THEN [recommendation |-> "Ready to perform - High intensity training is appropriate",
          avoid |-> IfAbove(fatigue, "cns", Float[70], <<"Max efforts">>)
                    \o IfAbove(fatigue, "lower", Float[70], <<"Heavy squats/deadlifts">>)
                    \o IfAbove(fatigue, "cardio", Float[70], <<"High-intensity intervals">>),
          suggested |->
              IF DLt(Float[70], fatigue.cns)
              THEN Remove(<<"All training types", "Competition prep", "PR attempts",
                            "Heavy lifting">>, "PR attempts")
              ELSE <<"All training types", "Competition prep", "PR attempts",
                     "Heavy lifting">>]
    ELSE IF readiness_score >= 60
    THEN [recommendation |-> "Good readiness - Moderate training recommended",
          avoid |-> <<"Max efforts", "Competition", "PR attempts">>
                    \o IfAbove(fatigue, "lower", Float[60], <<"Heavy lower body", "Running">>)
                    \o IfAbove(fatigue, "upper", Float[60], <<"Upper body strength">>)
                    \o IfAbove(fatigue, "cardio", Float[60], <<"Threshold work">>)
                    \o IfAbove(fatigue, "cns", Float[60],
                               <<"Complex movements", "Heavy lifting">>),
          suggested |-> <<"Moderate intensity work", "Base building", "Skill practice",
                          "Tempo runs">>
                    \o IfAbove(fatigue, "lower", Float[60], <<"Upper body", "Swimming">>)
                    \o IfAbove(fatigue, "upper", Float[60], <<"Lower body", "Cycling">>)
                    \o IfAbove(fatigue, "cardio", Float[60], <<"Easy Zone 2", "Strength work">>)
                    \o IfAbove(fatigue, "cns", Float[60], <<"Technique work", "Mobility">>)]
    ELSE IF readiness_score >= 40
    THEN [recommendation |-> "Reduced readiness - Easy training only",
          avoid |-> <<"High intensity", "Heavy lifting", "Long sessions", "Max efforts",
                      "Competition">>
                    \o (IF any_above(fatigue, Float[70])
                        THEN <<"All structured training">> ELSE <<>>),
          suggested |-> IF any_above(fatigue, Float[70])
                        THEN <<"Complete rest", "Light walking", "Stretching">>
                        ELSE <<"Easy cardio (Zone 1-2)", "Mobility work", "Light technique",
                               "Recovery activities">>]
    ELSE [recommendation |-> "Recovery needed - Prioritize rest and recovery",
          avoid |-> <<"All training", "Any intensity", "Structured workouts">>,
          suggested |-> <<"Complete rest", "Light walking", "Stretching", "Sleep",
                          "Hydration">>]

\* the list of suggestions of the top tier kept in one shared list: once a call has
\* taken "PR attempts" out of it, every later call finds it gone
generate_guidance_shared_list(fatigue, readiness_score) ==
    LET g == guidance_lists(fatigue, readiness_score)
        before == IF call = NoCall \/ "earlier" \notin DOMAIN call THEN {}
                  ELSE call.earlier \cup {<<call.fn, [args |-> call.args, ret |-> call.ret]>>}
        taken == \E e \in before : /\ e[1] = "generate_guidance"
                                    /\ e[2].args[2] >= 80
                                    /\ DLt(Float[70], e[2].args[1].cns)
    IN  [recommendation |-> g.recommendation,
         avoid |-> ListOfSet(IF g.avoid = <<>> THEN <<>> ELSE g.avoid),
         suggested |-> ListOfSet(IF g.suggested = <<>>
                                 THEN <<"Follow your planned training">>
                                 ELSE IF taken /\ readiness_score >= 80
                                 THEN Remove(g.suggested, "PR attempts")
                                 ELSE g.suggested)]
\* fatigue.py 162-172: the clean-up (an empty avoid is set to the empty list again)
generate_guidance(fatigue, readiness_score) ==
    LET g == guidance_lists(fatigue, readiness_score)
    IN  [recommendation |-> g.recommendation,
         avoid |-> ListOfSet(IF g.avoid = <<>> THEN <<>> ELSE g.avoid),
         suggested |-> ListOfSet(IF g.suggested = <<>>
                                 THEN <<"Follow your planned training">> ELSE g.suggested)]

GenerateGuidance ==
    LET GuidanceFatigue == [upper : {30, 65, 80}, lower : {30, 65, 80},
                            cardio : {30, 70, 80}, cns : {30, 65, 80}]
    IN  /\ call = NoCall
        /\ \E fatigue \in GuidanceFatigue, readiness_score \in {0, 39, 40, 59, 60, 79, 80, 100} :
              call' = [fn |-> "generate_guidance",
                       args |-> [fatigue |-> FloatVector(fatigue),
                                 readiness_score |-> readiness_score,
                                 literal |-> [fatigue |-> fatigue]],
                       ret |-> generate_guidance(FloatVector(fatigue), readiness_score)]
        /\ UNCHANGED <<syncVars, metricsVars, wsVars>>

-----------------------------------------------------------------------------
(* Timestamps given as text.  The aggregation loops pass a started_at that *)
(* is a str through datetime.fromisoformat(text.replace("Z", "+00:00")),   *)
(* which raises ValueError on a text that is no ISO date-time; the v2      *)
(* recent-training fatigue calls .date() on the value as it is.            *)

\* a started_at that is a str is written <<"str", text>>
IsStr(started_at) == Len(started_at) = 2

\* what fromisoformat makes of the sampled texts (day 0 is 1970-01-01); it raises on
\* every other text
IsoTable ==
    ("1970-01-11T08:00:00" :> Today) @@ ("1970-01-10T07:00:00Z" :> Today - 25)

Raised(exception) == [raised |-> exception]
Returned(value) == [value |-> value]

\* the activities as the loop sees them after the isinstance(activity_date, str) branch
parse_started_at(activities) ==
    [i \in 1..Len(activities) |->
        [activities[i] EXCEPT !.started_at =
            IF IsStr(@) THEN Some(IsoTable[@[2]]) ELSE @]]

\* a call of one of the five aggregations on activities whose started_at may be a text
aggregate(fn, activities, today) ==
    LET texts == {i \in 1..Len(activities) : IsStr(activities[i].started_at)}
        parsed == parse_started_at(activities)
    IN  IF fn = "calculate_recent_training_fatigue_v2"
        THEN IF texts # {} THEN Raised("AttributeError")
             ELSE Returned(calculate_recent_training_fatigue_v2(activities, today, 5))
        ELSE IF \E i \in texts : activities[i].started_at[2] \notin DOMAIN IsoTable
        THEN Raised("ValueError")
        ELSE IF fn = "calculate_fatigue"
        THEN Returned(calculate_fatigue(parsed, today, LookbackDefault))
        ELSE IF fn = "calculate_acute_load"
        THEN Returned(calculate_acute_load(parsed, today, 7))
        ELSE IF fn = "calculate_chronic_load"
        THEN Returned(calculate_chronic_load(parsed, today, 28))
        ELSE Returned(calculate_recent_training_fatigue(parsed, today))

CalculateFromTexts ==
    LET TextSamples ==
            { LoadAct(Some(Today - 1), "run", "hard", Some(60), Some(50)),
              LoadAct(None, "bike", "easy", Some(60), Some(20)),
              LoadAct(<<"str", "1970-01-11T08:00:00">>, "swim", "moderate", Some(60), Some(40)),
              LoadAct(<<"str", "1970-01-10T07:00:00Z">>, "strength", "max", Some(60), Some(80)),
              LoadAct(<<"str", "yesterday">>, "run", "easy", Some(30), Some(10)) }
    IN  /\ call = NoCall
        /\ \E fn \in {"calculate_fatigue", "calculate_acute_load", "calculate_chronic_load",
                        "calculate_recent_training_fatigue",
                        "calculate_recent_training_fatigue_v2"},
              activities \in ActivityListsOf(TextSamples, MaxActs) :
              call' = [fn |-> fn, args |-> [activities |-> activities, today |-> Today],
                       ret |-> aggregate(fn, activities, Today)]
        /\ UNCHANGED <<syncVars, metricsVars, wsVars>>

-----------------------------------------------------------------------------
(* training_load.py calculate_pmc_metrics.  CTL, ATL and TSB are kept as   *)
(* integers in units of 1/scale with scale = 6 * 42^(days + 1), which      *)
(* holds every division by 42 and by 7 of the loop, and the mean of the    *)
(* daily loads of the sampled activities, exactly.                         *)

\* the seed of both averages: sum(daily_tss.values()) / len(daily_tss), or 0
avg_tss_unseeded(total, active_days, scale) == 0
avg_tss(total, active_days, scale) ==
    IF active_days = 0 THEN 0 ELSE (total * scale) \div active_days

\* the loop variables of every day of the series, before rounding
pmc_series(activities, end_date, days) ==
    LET start_date == end_date - days * HoursPerDay
        scale == 6 * 42 ^ Max2(0, days + 1)
        counted == {i \in 1..Len(activities) : load_counted(activities[i], end_date, days)}
        date_key(i) == DateOf(Val(activities[i].started_at))
        tss(i) == IF IsNone(activities[i].training_load) THEN 0
                  ELSE Val(activities[i].training_load)
        on_date(key) == {i \in counted : date_key(i) = key}
        RECURSIVE sum_tss(_)
        sum_tss(S) == IF S = {} THEN 0
                      ELSE LET i == CHOOSE j \in S : TRUE IN tss(i) + sum_tss(S \ {i})
        daily_tss == {date_key(i) : i \in counted}
        RECURSIVE ema(_, _)
        ema(constant, i) ==
            IF i = 0 THEN avg_tss(sum_tss(counted), Cardinality(daily_tss), scale)
            ELSE LET yesterday == ema(constant, i - 1)
                     tss_today == sum_tss(on_date(DateOf(start_date) + i - 1))
                 IN  yesterday + (tss_today * scale - yesterday) \div constant
    IN  [i \in 1..Max2(0, days + 1) |->
            [date |-> DateOf(start_date) + i - 1,
             tss |-> sum_tss(on_date(DateOf(start_date) + i - 1)),
             ctl |-> ema(42, i), atl |-> ema(7, i),
             tsb |-> ema(42, i - 1) - ema(7, i - 1), scale |-> scale]]

\* the returned series: round(x, 1) of ctl, atl, tsb and tss, written in tenths
calculate_pmc_metrics(activities, end_date, days) ==
    LET round1(x, scale) ==
            LET whole == x \div scale
                tenths == ((x % scale) * 10) \div scale
                rest == ((x % scale) * 10) % scale
                down == whole * 10 + tenths
            IN  IF 2 * rest > scale \/ (2 * rest = scale /\ down % 2 = 1)
                THEN down + 1 ELSE down
        series == pmc_series(activities, end_date, days)
    IN  [i \in 1..Len(series) |->
            [date |-> series[i].date, ctl |-> round1(series[i].ctl, series[i].scale),
             atl |-> round1(series[i].atl, series[i].scale),
             tsb |-> round1(series[i].tsb, series[i].scale), tss |-> series[i].tss * 10]]

CalculatePmcMetrics ==
    LET \* activities around a window that ends at Today, 08:00 of day 10
        PmcSamples ==
            { LoadAct(Some(Today), "run", "easy", Some(60), Some(10)),
              LoadAct(Some(Today + 4), "run", "easy", Some(60), Some(10)),
              LoadAct(Some(Today - HoursPerDay), "bike", "easy", Some(60), Some(10)),
              LoadAct(Some(Today - HoursPerDay - 2), "swim", "hard", Some(60), Some(20)),
              LoadAct(Some(Today - 2 * HoursPerDay), "run", "easy", Some(60), None),
              LoadAct(None, "run", "hard", Some(60), Some(30)) }
    IN  /\ call = NoCall
        /\ \E activities \in ActivityListsOf(PmcSamples, MaxActs) \cup
                              {[i \in 1..4 |-> LoadAct(Some(Today - (4 - i) * HoursPerDay),
                                                       "run", "easy", Some(60), Some(10))]},
              days \in {-2, -1, 0, 1, 3} :
              call' = [fn |-> "calculate_pmc_metrics",
                       args |-> [activities |-> activities, end_date |-> Today, days |-> days],
                       ret |-> Returned(calculate_pmc_metrics(activities, Today, days))]
        /\ UNCHANGED <<syncVars, metricsVars, wsVars>>

\* activity_service.py MetricsService.recompute_metrics: the dates handed to
\* compute_daily_metrics by the while loop, before the commit
recompute_metrics(start_date, end_date) ==
    Returned([i \in 1..Max2(0, end_date - start_date + 1) |-> start_date + i - 1])

RecomputeMetricsOver ==
    /\ call = NoCall
    /\ \E start_date \in 8..11, end_date \in 8..11 :
          call' = [fn |-> "recompute_metrics",
                   args |-> [start_date |-> start_date, end_date |-> end_date],
                   ret |-> recompute_metrics(start_date, end_date)]
    /\ UNCHANGED <<syncVars, metricsVars, wsVars>>

-----------------------------------------------------------------------------
(* The two ACWR estimators: training_load.py calculate_acwr and            *)
(* readiness_v2.py ewma and calculate_acwr_ewma, in binary64.              *)

acwr_zero_without_chronic(acute, chronic) ==
    IF DLe(chronic, Float[0]) THEN Float[0] ELSE DDiv(acute, chronic)
calculate_acwr(acute, chronic) ==
    IF DLe(chronic, Float[0]) THEN Float[100] ELSE DDiv(acute, chronic)

\* loads oldest first; every step's value is computed once and carried on
ewma(loads, decay_days) ==
    LET alpha == DDiv(DFromNat(2), DFromNat(decay_days + 1))
        RECURSIVE loop(_, _, _)
        loop(a, i, ewma_value) ==
            IF i > Len(loads) THEN ewma_value
            ELSE CHOOSE r \in {loop(a, i + 1, value) :
                                  value \in {DAdd(DMul(a[1], loads[i]),
                                                  DMul(a[2], ewma_value))}} : TRUE
    IN  IF loads = <<>> THEN Float[0]
        ELSE CHOOSE r \in {loop(a, 2, loads[1]) :
                              a \in {<<alpha, DSub(Float[100], alpha)>>}} : TRUE

calculate_acwr_ewma(daily_loads) ==
    LET padded == [i \in 1..Max2(0, 28 - Len(daily_loads)) |-> Float[0]] \o daily_loads
        loads_28d == SubSeq(padded, Len(padded) - 27, Len(padded))
        ratio(acute_load, chronic_load) ==
            IF DLt(chronic_load, Float[100]) THEN Float[100]
            ELSE DDiv(acute_load, chronic_load)
    IN  IF Len(daily_loads) < 7 THEN Float[100]
        ELSE CHOOSE r \in {ratio(loads[1], loads[2]) :
                              loads \in {<<ewma(loads_28d, 7), ewma(loads_28d, 28)>>}} : TRUE

CalculateAcwr ==
    /\ call = NoCall
    /\ \E acute \in {0, 25, 100, 300}, chronic \in {0, 1, 50, 100, 201} :
          call' = [fn |-> "calculate_acwr",
                   args |-> [acute |-> DLit(acute, 4), chronic |-> DLit(chronic, 4)],
                   ret |-> calculate_acwr(DLit(acute, 4), DLit(chronic, 4))]
    /\ UNCHANGED <<syncVars, metricsVars, wsVars>>

CalculateAcwrEwma ==
    /\ call = NoCall
    \* k daily loads that start at base and change by step a day
    /\ \E k \in {0, 6, 7, 28, 29}, base \in {0, 1, 50, 100}, step \in {-1, 0, 1} :
          LET daily_loads == [i \in 1..k |-> DFromNat(Max2(0, base + step * (i - 1)))]
          IN  call' = [fn |-> "calculate_acwr_ewma",
                       args |-> [daily_loads |-> daily_loads],
                       ret |-> calculate_acwr_ewma(daily_loads)]
    /\ UNCHANGED <<syncVars, metricsVars, wsVars>>

-----------------------------------------------------------------------------
(* The scoring functions called one after another in one process: each     *)
(* call records the calls made before it.  The functions take the clock    *)
(* as an argument and touch neither their arguments nor the module tables. *)

MaxEarlierCalls == 2

\* one call of each scoring function, two of generate_guidance: <<fn, [args, ret]>>
ScoringCalls ==
    LET activities == <<LoadAct(Some(Today - 1), "strength", "max", Some(60), Some(50)),
                        LoadAct(Some(Today), "hyrox", "max", Some(60), Some(100))>>
        recent == <<Act(Some(Today - 1), "strength", "hard")>>
        fresh == FloatVector([upper |-> 30, lower |-> 30, cardio |-> 30, cns |-> 30])
        tired == FloatVector([upper |-> 30, lower |-> 30, cardio |-> 30, cns |-> 80])
        Called(fn, args, ret) == <<fn, [args |-> args, ret |-> ret]>>
    IN  { Called("calculate_fatigue", <<activities, Today, LookbackDefault>>,
                 calculate_fatigue(activities, Today, LookbackDefault)),
          Called("calculate_acute_load", <<activities, Today, 7>>,
                 calculate_acute_load(activities, Today, 7)),
          Called("calculate_chronic_load", <<activities, Today, 28>>,
                 calculate_chronic_load(activities, Today, 28)),
          Called("calculate_acwr", <<DLit(300, 4), DLit(201, 4)>>,
                 calculate_acwr(DLit(300, 4), DLit(201, 4))),
          Called("calculate_readiness",
                 <<Some(40), Some(50), Some(75), SleepTarget, None, Some(76), recent, 60, Today>>,
                 calculate_readiness(Some(40), Some(50), Some(75), SleepTarget, None,
                                     Some(76), recent, 60, Today)),
          Called("calculate_readiness_v2",
                 <<Some(40), Some(50), Some(30), SleepTarget, Some(40), <<30, 40, 30>>,
                   Some(10), recent, 60, Today, Float[150], Some(3), "A">>,
                 calculate_readiness_v2(Some(40), Some(50), Some(30), SleepTarget, Some(40),
                                        <<30, 40, 30>>, Some(10), recent, 60, Today,
                                        Float[150], Some(3), "A")),
          Called("evaluate_sport_readiness", <<55, tired, Float[170]>>,
                 evaluate_sport_readiness(55, tired, Float[170])) }
        \cup {Called("generate_guidance", <<fatigue, 80>>, generate_guidance(fatigue, 80))
              : fatigue \in {fresh, tired}}

\* the next call in the process, after the calls made so far
CallScoringFunction ==
    /\ \E next \in ScoringCalls :
          LET earlier == IF call = NoCall THEN {}
                         ELSE call.earlier \cup
                                  {<<call.fn, [args |-> call.args, ret |-> call.ret]>>}
          IN  /\ Cardinality(earlier) <= MaxEarlierCalls
              /\ call' = [fn |-> next[1], args |-> next[2].args, ret |-> next[2].ret,
                          earlier |-> earlier]
    /\ UNCHANGED <<syncVars, metricsVars, wsVars>>

-----------------------------------------------------------------------------
(* classifiers.py: discipline and intensity zone of a parsed activity      *)

GARMIN_TYPE_TO_DISCIPLINE ==
    [running |-> "run", treadmill_running |-> "run", trail_running |-> "run",
     track_running |-> "run", cycling |-> "bike", indoor_cycling |-> "bike",
     mountain_biking |-> "bike", gravel_cycling |-> "bike", virtual_ride |-> "bike",
     swimming |-> "swim", lap_swimming |-> "swim", open_water_swimming |-> "swim",
     strength_training |-> "strength", weight_training |-> "strength",
     fitness_equipment |-> "strength", functional_training |-> "hyrox", hiit |-> "hyrox",
     crossfit |-> "hyrox", cardio |-> "other", elliptical |-> "other", rowing |-> "other",
     other |-> "other"]

HYROX_KEYWORDS == <<"hyrox", "roxzone", "simulation", "sim", "functional">>

\* str.lower(), character by character
RECURSIVE lower(_)
lower(text) ==
    LET small == [A |-> "a", B |-> "b", C |-> "c", D |-> "d", E |-> "e", F |-> "f",
                  G |-> "g", H |-> "h", I |-> "i", J |-> "j", K |-> "k", L |-> "l",
                  M |-> "m", N |-> "n", O |-> "o", P |-> "p", Q |-> "q", R |-> "r",
                  S |-> "s", T |-> "t", U |-> "u", V |-> "v", W |-> "w", X |-> "x",
                  Y |-> "y", Z |-> "z"]
    IN  IF Len(text) = 0 THEN ""
        ELSE (IF Head(text) \in DOMAIN small THEN small[Head(text)] ELSE Head(text))
             \o lower(SubSeq(text, 2, Len(text)))

\* the heuristic with no keyword test: only the duration of a functional session counts
is_likely_hyrox_by_duration(activity) ==
    /\ lower(DictGet(activity, "activity_type", "")) \in {"functional_training", "hiit"}
    /\ 30 <= DictGet(activity, "duration_minutes", 0)
    /\ DictGet(activity, "duration_minutes", 0) <= 120
\* activity_name is None when Garmin sends no name: `or ""` takes the empty text then
is_likely_hyrox(activity) ==
    LET given == DictGet(activity, "activity_name", None)
        name == lower(IF given = None THEN "" ELSE Val(given))
        duration == DictGet(activity, "duration_minutes", 0)
        activity_type == lower(DictGet(activity, "activity_type", ""))
    IN  \/ \E k \in 1..Len(HYROX_KEYWORDS) :
               \E i \in 1..(Len(name) - Len(HYROX_KEYWORDS[k]) + 1) :
                   SubSeq(name, i, i + Len(HYROX_KEYWORDS[k]) - 1) = HYROX_KEYWORDS[k]
        \/ /\ activity_type \in {"functional_training", "hiit"}
           /\ 30 <= duration /\ duration <= 120

classify_discipline(activity) ==
    LET activity_type == lower(DictGet(activity, "activity_type", ""))
    IN  IF activity_type \in {"functional_training", "hiit"} /\ is_likely_hyrox(activity)
        THEN "hyrox"
        ELSE IF activity_type \in DOMAIN GARMIN_TYPE_TO_DISCIPLINE
        THEN GARMIN_TYPE_TO_DISCIPLINE[activity_type]
        ELSE IF is_likely_hyrox(activity) THEN "hyrox"
        ELSE "other"

\* training effects in tenths; a field may be missing, or present and None; a number
\* n is Some(n). The
\* quotient avg_hr / user_max_hr is compared by cross-multiplication: for heart rates
\* below 1000 the quotient is never within rounding of 0.65, 0.80 or 0.90 unless equal
infer_intensity_zone(activity, user_max_hr) ==
    LET avg_hr == DictGet(activity, "avg_hr", None)
        first == DictGet(activity, "aerobic_training_effect", Some(0))
        training_effect == IF first = Some(0)
                           THEN DictGet(activity, "activityTrainingEffect", Some(0))
                           ELSE first
    IN  IF avg_hr \in {None, Some(0)} \/ user_max_hr \in {None, Some(0)}
        THEN IF training_effect = None THEN Raised("TypeError")
             ELSE IF Val(training_effect) < 20 THEN Returned("easy")
             ELSE IF Val(training_effect) < 35 THEN Returned("moderate")
             ELSE IF Val(training_effect) < 45 THEN Returned("hard")
             ELSE Returned("max")
        ELSE IF Val(avg_hr) * 100 < 65 * Val(user_max_hr) THEN Returned("easy")
        ELSE IF Val(avg_hr) * 100 < 80 * Val(user_max_hr) THEN Returned("moderate")
        ELSE IF Val(avg_hr) * 100 < 90 * Val(user_max_hr) THEN Returned("hard")
        ELSE Returned("max")

ClassifyDiscipline ==
    /\ call = NoCall
    /\ \E activity_type \in {"running", "Running", "trail_running", "cycling",
                             "lap_swimming", "strength_training", "functional_training",
                             "hiit", "HIIT", "crossfit", "rowing", "other", "yoga", ""},
          activity_name \in {None} \cup {Some(name) : name \in
                              {"", "Morning Run", "HYROX Sim", "Simple jog", "Roxzone laps",
                               "Functional strength", "Intervals"}},
          duration_minutes \in {0, 29, 30, 120, 121} :
          LET activity == [activity_type |-> activity_type, activity_name |-> activity_name,
                           duration_minutes |-> duration_minutes]
          IN  call' = [fn |-> "classify_discipline", args |-> [activity |-> activity],
                       ret |-> classify_discipline(activity)]
    /\ UNCHANGED <<syncVars, metricsVars, wsVars>>

InferIntensityZone ==
    /\ call = NoCall
    /\ LET Given(numbers) == {<<>>, <<None>>} \cup {<<Some(n)>> : n \in numbers}
           Field(key, given) == IF given = <<>> THEN <<>> ELSE <<<<key, given[1]>>>>
       IN  \E avg_hr \in Given({0, 110, 130, 160, 180}),
              aerobic \in Given({0, 19, 20, 35, 45}), effect \in Given({0, 25, 50}),
              user_max_hr \in {None, Some(0), Some(185), Some(200)} :
              LET items == Field("avg_hr", avg_hr)
                           \o Field("aerobic_training_effect", aerobic)
                           \o Field("activityTrainingEffect", effect)
                  activity == [key \in {items[i][1] : i \in 1..Len(items)} |->
                                  (CHOOSE item \in {items[i] : i \in 1..Len(items)} :
                                       item[1] = key)[2]]
              IN  call' = [fn |-> "infer_intensity_zone",
                           args |-> [activity |-> activity, user_max_hr |-> user_max_hr],
                           ret |-> infer_intensity_zone(activity, user_max_hr)]
    /\ UNCHANGED <<syncVars, metricsVars, wsVars>>

-----------------------------------------------------------------------------
(* phase_service.py: the training phases generated for an event            *)

\* templates that leave the second week before the event to no phase
PHASE_TEMPLATES_with_gap ==
    [t \in {"hyrox", "triathlon_half", "triathlon_full", "marathon", "other"} |->
        <<<<"taper", 0, Some(1)>>, <<"peak", 1, Some(2)>>, <<"build", 3, Some(8)>>,
          <<"base", 8, None>>>>]
\* each template in the order of its dict: <<phase_type, min_weeks, max_weeks>>, the
\* open end of the base phase being None
PHASE_TEMPLATES ==
    [hyrox |-> <<<<"taper", 0, Some(1)>>, <<"peak", 1, Some(3)>>, <<"build", 3, Some(8)>>,
                 <<"base", 8, None>>>>,
     triathlon_half |-> <<<<"taper", 0, Some(2)>>, <<"peak", 2, Some(4)>>,
                          <<"build", 4, Some(10)>>, <<"base", 10, None>>>>,
     triathlon_full |-> <<<<"taper", 0, Some(2)>>, <<"peak", 2, Some(4)>>,
                          <<"build", 4, Some(12)>>, <<"base", 12, None>>>>,
     marathon |-> <<<<"taper", 0, Some(2)>>, <<"peak", 2, Some(4)>>,
                    <<"build", 4, Some(10)>>, <<"base", 10, None>>>>,
     other |-> <<<<"taper", 0, Some(1)>>, <<"peak", 1, Some(2)>>, <<"build", 2, Some(6)>>,
                 <<"base", 6, None>>>>]

\* dates are day ordinals, timedelta(weeks=w) is 7 * w days
generate_phases_for_event(event) ==
    LET template == IF event.event_type \in DOMAIN PHASE_TEMPLATES
                    THEN PHASE_TEMPLATES[event.event_type] ELSE PHASE_TEMPLATES["other"]
        get_phase_name(phase_type) ==
            CASE phase_type = "base" -> "Base Training" [] phase_type = "build" -> "Build Phase"
              [] phase_type = "peak" -> "Peak Phase" [] phase_type = "taper" -> "Taper"
    IN  [i \in 1..Len(template) |->
            LET phase_type == template[i][1]
                min_weeks == template[i][2]
                max_weeks == template[i][3]
                end_date == event.event_date - 7 * min_weeks
            IN  [name |-> get_phase_name(phase_type) \o " - " \o event.name,
                 phase_type |-> phase_type,
                 start_date |-> IF max_weeks = None THEN end_date - 365
                                ELSE event.event_date - 7 * Val(max_weeks),
                 end_date |-> end_date,
                 target_event_id |-> event.id]]

\* events of the years 2024 to 2026 (day 738886 is 2024-01-01)
GeneratePhasesForEvent ==
    /\ call = NoCall
    /\ \E event_type \in {"hyrox", "triathlon_half", "triathlon_full", "marathon", "other",
                          "ultra_trail"},
          event_date \in {738886 + 59 * k : k \in 0..18}, id \in 1..2 :
          LET event == [id |-> id, name |-> IF id = 1 THEN "Test Event" ELSE "Hyrox Paris",
                        event_type |-> event_type, event_date |-> event_date]
          IN  call' = [fn |-> "generate_phases_for_event", args |-> [event |-> event],
                       ret |-> generate_phases_for_event(event)]
    /\ UNCHANGED <<syncVars, metricsVars, wsVars>>

-----------------------------------------------------------------------------
(* activity_service.py MetricsService: compute_daily_metrics and           *)
(* recompute_metrics called from get_dashboard, trigger_sync and the       *)
(* sync_garmin script, each in its own database session.  The values of a  *)
(* record stand as the number of the activity and health snapshot they     *)
(* were computed from; computed_metrics.date is unique.                    *)

Callers == {"get_dashboard", "trigger_sync", "sync_garmin"}
TodayDate == 2
MaxSnapshot == 1

IdleSession == [pc |-> "idle", dates |-> <<>>, values |-> 0, existing |-> FALSE, wrote |-> {}]


\* a sync run or an edit commits new activities or health data
ChangeSnapshot ==
    /\ snapshot < MaxSnapshot
    /\ snapshot' = snapshot + 1
    /\ UNCHANGED <<call, syncVars, wsVars, computed_metrics, session>>

\* rollback of the session of c
RollbackMetrics(rows, c) ==
    {IF x.update # None /\ Val(x.update).session = c THEN [x EXCEPT !.update = None] ELSE x :
         x \in {y \in rows : y.committed \/ y.session # c}}

\* get_dashboard computes today; recompute_metrics walks start_date..end_date
CallMetrics(c) ==
    /\ session[c].pc \in {"idle", "committed", "rolled_back"}
    /\ \E start_date \in 1..TodayDate :
          session' = [session EXCEPT ![c] =
                         [IdleSession EXCEPT
                             !.pc = "compute",
                             !.dates = IF c = "get_dashboard" THEN <<TodayDate>>
                                       ELSE [i \in 1..(TodayDate - start_date + 1) |->
                                                start_date + i - 1]]]
    /\ UNCHANGED <<call, syncVars, wsVars, computed_metrics, snapshot>>

\* compute_daily_metrics up to the scores: the selects of activities, health and
\* settings, and the pure scoring functions
ComputeDailyMetrics(c) ==
    /\ session[c].pc = "compute"
    /\ session' = [session EXCEPT ![c].values = snapshot, ![c].pc = "select_existing"]
    /\ UNCHANGED <<call, syncVars, wsVars, computed_metrics, snapshot>>

\* select(ComputedMetrics).where(date == target_date): the committed row or the own row
SelectExisting(c) ==
    /\ session[c].pc = "select_existing"
    /\ session' = [session EXCEPT
                      ![c].existing = \E x \in computed_metrics :
                                          /\ x.date = Head(session[c].dates)
                                          /\ (x.committed \/ x.session = c),
                      ![c].pc = "flush"]
    /\ UNCHANGED <<call, syncVars, wsVars, computed_metrics, snapshot>>

\* where the caller goes after the flush of one date
AfterFlush(c, s) ==
    [s EXCEPT !.dates = Tail(@),
              !.wrote = {w \in @ : w[1] # Head(s.dates)} \cup {<<Head(s.dates), s.values>>},
              !.pc = IF Len(s.dates) > 1 THEN "compute" ELSE "end"]

FlushWithoutConstraint(c) ==
    /\ session[c].pc = "flush"
    /\ computed_metrics' = computed_metrics \cup
           {[date |-> Head(session[c].dates), values |-> session[c].values,
             session |-> c, committed |-> FALSE, update |-> None]}
    /\ session' = [session EXCEPT ![c] = AfterFlush(c, @)]
    /\ UNCHANGED <<call, syncVars, wsVars, snapshot>>

\* setattr on the existing row, or db.add of a new one, then db.flush().  An UPDATE
\* waits for the uncommitted update of another session, an INSERT for the uncommitted
\* row of another session with the same date; an INSERT of a date that is stored by
\* now fails, and the failed flush rolls the transaction back.
Flush(c) ==
    /\ session[c].pc = "flush"
    /\ LET target_date == Head(session[c].dates)
           rows == {x \in computed_metrics : x.date = target_date}
       IN  IF session[c].existing
           THEN /\ \A x \in rows : x.update # None => Val(x.update).session = c
                /\ computed_metrics' =
                       {IF x \notin rows THEN x
                        ELSE IF x.committed
                        THEN [x EXCEPT !.update = Some([session |-> c,
                                                        values |-> session[c].values])]
                        ELSE [x EXCEPT !.values = session[c].values] :
                            x \in computed_metrics}
                /\ session' = [session EXCEPT ![c] = AfterFlush(c, @)]
           ELSE /\ \A x \in rows : x.committed
                /\ IF rows # {}
                   THEN /\ computed_metrics' = RollbackMetrics(computed_metrics, c)
                        /\ session' = [session EXCEPT ![c].pc = "rolled_back"]
                   ELSE /\ computed_metrics' = computed_metrics \cup
                               {[date |-> target_date, values |-> session[c].values,
                                 session |-> c, committed |-> FALSE, update |-> None]}
                        /\ session' = [session EXCEPT ![c] = AfterFlush(c, @)]
    /\ UNCHANGED <<call, syncVars, wsVars, snapshot>>

\* recompute_metrics ends with db.commit(); get_dashboard returns and its session is
\* closed by get_db, which is not part of the sources: it commits or rolls back
EndSession(c) ==
    LET \* db.commit() of the session of c: its new rows and its updates become the stored ones
        CommitMetrics(rows) ==
            {IF x.update # None /\ Val(x.update).session = c
             THEN [x EXCEPT !.values = Val(x.update).values, !.update = None]
             ELSE [x EXCEPT !.committed = x.committed \/ x.session = c] : x \in rows}
    IN  /\ session[c].pc = "end"
        /\ \E commit \in IF c = "get_dashboard" THEN BOOLEAN ELSE {TRUE} :
              /\ computed_metrics' = IF commit THEN CommitMetrics(computed_metrics)
                                     ELSE RollbackMetrics(computed_metrics, c)
              /\ session' = [session EXCEPT ![c].pc = IF commit THEN "committed"
                                                      ELSE "rolled_back"]
        /\ UNCHANGED <<call, syncVars, wsVars, snapshot>>

-----------------------------------------------------------------------------
(* api/websocket.py ConnectionManager: the coroutines of one event loop.   *)
(* A step runs from one await to the next; the body of `async with         *)
(* self._lock` holds no await, so it runs within the step that reaches it. *)

\* websockets are numbered in the order the endpoint accepts them
MaxSockets == 3
Broadcasts == {"sync_notify_1", "sync_notify_2"}

\* websocket_sync_endpoint: manager.connect(websocket) appends the accepted socket
connect ==
    /\ accepted < MaxSockets
    /\ accepted' = accepted + 1
    /\ active_connections' = Append(active_connections, accepted + 1)
    /\ UNCHANGED <<call, syncVars, metricsVars, broadcast>>

\* manager.disconnect(websocket), from the finally of the endpoint or from a failed
\* send_personal; a socket out of the list is registered for no broadcast any more
disconnect(websocket) ==
    /\ websocket \in 1..accepted
    /\ active_connections' = SelectSeq(active_connections, LAMBDA x : x # websocket)
    /\ broadcast' = [b \in Broadcasts |->
                        [broadcast[b] EXCEPT !.whole = @ \ {websocket}]]
    /\ UNCHANGED <<call, syncVars, metricsVars, accepted>>

\* manager.broadcast(message), called by sync_notify: one step up to the first
\* send_json, then one step per send_json that returns or raises.  The for statement
\* asks the list iterator for the item at `index` of the list as it is now; at the end
\* of the list comes the clean-up under the lock.
broadcast_message(b) ==
    LET NextConnection(task) ==
            IF task.index < Len(active_connections)
            THEN /\ broadcast' =
                        [broadcast EXCEPT ![b] =
                            [task EXCEPT !.pc = "send_json", !.index = @ + 1,
                                         !.sent = Append(@, active_connections[task.index + 1])]]
                 /\ UNCHANGED active_connections
            ELSE LET failed == {task.disconnected[i] : i \in 1..Len(task.disconnected)}
                 IN  /\ active_connections' = SelectSeq(active_connections, LAMBDA x : x \notin failed)
                     /\ broadcast' =
                            [c \in Broadcasts |->
                                IF c = b THEN [task EXCEPT !.pc = "done"]
                                ELSE [broadcast[c] EXCEPT !.whole = @ \ failed]]
    IN  /\ \/ /\ broadcast[b].pc \in {"idle", "done"}
              /\ NextConnection([pc |-> "idle", index |-> 0, disconnected |-> <<>>,
                                 sent |-> <<>>,
                                 whole |-> {active_connections[i] :
                                                i \in 1..Len(active_connections)}])
           \/ /\ broadcast[b].pc = "send_json"
              /\ \E raised \in BOOLEAN :
                    NextConnection(
                        IF raised
                        THEN [broadcast[b] EXCEPT !.disconnected =
                                 Append(@, broadcast[b].sent[Len(broadcast[b].sent)])]
                        ELSE broadcast[b])
        /\ UNCHANGED <<call, syncVars, metricsVars, accepted>>

-----------------------------------------------------------------------------
(* Ingestion runs: worker/jobs.py hourly_sync_job and daily_sync_job,      *)
(* app/main.py trigger_sync, scripts/sync_garmin.py sync_garmin.  Each     *)
(* entry point is a run with its own database session; a step is one       *)
(* awaited call.  A session sees the committed rows and its own rows       *)
(* (PostgreSQL READ COMMITTED); activities.garmin_id is unique.            *)

Runs == {"hourly_sync_job", "daily_sync_job", "trigger_sync", "sync_garmin"}
NoId == "none"
MaxFetched == 2


Row(garmin_id, r, committed) == [garmin_id |-> garmin_id, run |-> r, committed |-> committed]

\* db.commit(): the rows of the session become visible to every session
Commit(rows, r) == {Row(x.garmin_id, x.run, x.committed \/ x.run = r) : x \in rows}
\* rollback: the uncommitted rows of the session disappear
Rollback(rows, r) == {x \in rows : x.committed \/ x.run # r}

\* the run is called: a worker job returns at once when auto-sync is disabled, the
\* script authenticates first and never asks for the lock
Start(r) ==
    /\ pc[r] = "idle"
    /\ \E auto_sync_enabled \in BOOLEAN :
          IF r \in {"hourly_sync_job", "daily_sync_job"} /\ ~auto_sync_enabled
          THEN /\ pc' = [pc EXCEPT ![r] = "done"]
               /\ outcome' = [outcome EXCEPT ![r] = "disabled"]
          ELSE /\ pc' = [pc EXCEPT ![r] = IF r = "sync_garmin" THEN "authenticate"
                                          ELSE "acquire"]
               /\ outcome' = [outcome EXCEPT ![r] = "running"]
    /\ UNCHANGED <<call, metricsVars, wsVars, lock_holder, lock_acquired, fetched, db_activities, sync_jobs>>

\* sync_lock.py acquire_sync_lock: pg_try_advisory_lock(1) in the session of r.  A lock
\* left on the pooled connection of an earlier run of r is taken again only if the
\* pool hands out that connection.
acquire_sync_lock(r) ==
    /\ pc[r] = "acquire"
    /\ \E same_connection \in BOOLEAN :
          IF lock_holder = None \/ (lock_holder = Some(r) /\ same_connection)
          THEN /\ lock_holder' = Some(r)
               /\ lock_acquired' = [lock_acquired EXCEPT ![r] = TRUE]
               /\ pc' = [pc EXCEPT ![r] = "create_job"]
               /\ UNCHANGED outcome
          ELSE /\ pc' = [pc EXCEPT ![r] = IF r \in {"hourly_sync_job", "daily_sync_job"} THEN "finally" ELSE "close"]
               /\ outcome' = [outcome EXCEPT ![r] = "skipped"]
               /\ UNCHANGED <<lock_holder, lock_acquired>>
    /\ UNCHANGED <<call, metricsVars, wsVars, fetched, db_activities, sync_jobs>>

\* SyncJob(status=running); db.add; db.flush
CreateSyncJob(r) ==
    /\ pc[r] = "create_job"
    /\ sync_jobs' = [sync_jobs EXCEPT ![r] = Some([status |-> "running", stored |-> "absent"])]
    /\ pc' = [pc EXCEPT ![r] = "authenticate"]
    /\ UNCHANGED <<call, metricsVars, wsVars, lock_holder, lock_acquired, fetched, db_activities, outcome>>

\* sync_service.authenticate()
Authenticate(r) ==
    /\ pc[r] = "authenticate"
    /\ \E ok \in BOOLEAN :
          IF ok
          THEN /\ pc' = [pc EXCEPT ![r] = "fetch"]
               /\ UNCHANGED <<sync_jobs, outcome>>
          ELSE IF r = "sync_garmin"
          THEN /\ pc' = [pc EXCEPT ![r] = "done"]
               /\ outcome' = [outcome EXCEPT ![r] = "failed"]
               /\ UNCHANGED sync_jobs
          ELSE /\ pc' = [pc EXCEPT ![r] = "except"]
               /\ sync_jobs' = IF r = "trigger_sync"
                               THEN [sync_jobs EXCEPT ![r] =
                                        Some([status |-> "failed", stored |-> "failed"])]
                               ELSE sync_jobs
               /\ UNCHANGED outcome
    /\ UNCHANGED <<call, metricsVars, wsVars, lock_holder, lock_acquired, fetched, db_activities>>

\* where an exception raised in the body of the run goes
Raise(r) == IF r = "sync_garmin" THEN "close" ELSE "except"

\* sync_service.get_activities_by_date(start_date, end_date), which can raise
Fetch(r) ==
    LET \* what get_activities_by_date can return: the activityId of each summary
        FetchResults ==
            LET GarminIds == {"g1"}
            IN  ActivityListsOf(GarminIds \cup {NoId}, MaxFetched)
    IN  /\ pc[r] = "fetch"
        /\ \/ \E summaries \in FetchResults :
                 /\ fetched' = [fetched EXCEPT ![r] = summaries]
                 /\ pc' = [pc EXCEPT ![r] = "store"]
                 /\ UNCHANGED outcome
           \/ /\ pc' = [pc EXCEPT ![r] = Raise(r)]
              /\ outcome' = [outcome EXCEPT ![r] = "failed"]
              /\ UNCHANGED fetched
        /\ UNCHANGED <<call, metricsVars, wsVars, lock_holder, lock_acquired, db_activities, sync_jobs>>

\* the head of the loop over the fetched summaries: skip a summary without activityId
\* or with a stored garmin_id (the script also one without details), else go on to create
StoreNext(r) ==
    LET \* ActivityService.get_by_garmin_id in the session of r
        get_by_garmin_id(rows, garmin_id) ==
            \E x \in rows : x.garmin_id = garmin_id /\ (x.committed \/ x.run = r)
    IN  /\ pc[r] = "store"
        /\ IF fetched[r] = <<>>
           THEN /\ pc' = [pc EXCEPT ![r] = IF r = "hourly_sync_job" THEN "complete" ELSE "metrics"]
                /\ UNCHANGED fetched
           ELSE \E details \in BOOLEAN :
                   IF \/ Head(fetched[r]) = NoId
                      \/ get_by_garmin_id(db_activities, Head(fetched[r]))
                      \/ (r = "sync_garmin" /\ ~details)
                   THEN /\ fetched' = [fetched EXCEPT ![r] = Tail(fetched[r])]
                        /\ UNCHANGED pc
                   ELSE /\ pc' = [pc EXCEPT ![r] = "create"]
                        /\ UNCHANGED fetched
        /\ UNCHANGED <<call, metricsVars, wsVars, lock_holder, lock_acquired, db_activities, sync_jobs, outcome>>

CreateWithoutConstraint(r) ==
    /\ pc[r] = "create"
    /\ db_activities' = db_activities \cup {Row(Head(fetched[r]), r, FALSE)}
    /\ fetched' = [fetched EXCEPT ![r] = Tail(fetched[r])]
    /\ pc' = [pc EXCEPT ![r] = "store"]
    /\ UNCHANGED <<call, metricsVars, wsVars, lock_holder, lock_acquired, sync_jobs, outcome>>

\* ActivityService.create: db.add and db.flush of the new row.  The INSERT waits for
\* an uncommitted row with the same garmin_id and fails on a committed one; the failed
\* flush rolls the transaction of the session back.
Create(r) ==
    /\ pc[r] = "create"
    /\ ~\E x \in db_activities :
          x.garmin_id = Head(fetched[r]) /\ x.run # r /\ ~x.committed
    /\ IF \E x \in db_activities : x.garmin_id = Head(fetched[r])
       THEN /\ db_activities' = Rollback(db_activities, r)
            /\ pc' = [pc EXCEPT ![r] = IF r = "sync_garmin" THEN "close" ELSE "except_flush"]
            /\ outcome' = [outcome EXCEPT ![r] = "failed"]
            /\ UNCHANGED fetched
       ELSE /\ db_activities' = db_activities \cup {Row(Head(fetched[r]), r, FALSE)}
            /\ fetched' = [fetched EXCEPT ![r] = Tail(fetched[r])]
            /\ pc' = [pc EXCEPT ![r] = "store"]
            /\ UNCHANGED outcome
    /\ UNCHANGED <<call, metricsVars, wsVars, lock_holder, lock_acquired, sync_jobs>>

\* health upserts, then MetricsService.recompute_metrics, which commits; either can raise
RecomputeMetrics(r) ==
    LET \* the stored status of the SyncJob row after a commit of the session
        Stored(job) == IF IsNone(job) THEN job ELSE Some([status |-> Val(job).status,
                                                          stored |-> Val(job).status])
    IN  /\ pc[r] = "metrics"
        /\ \/ /\ db_activities' = Commit(db_activities, r)
              /\ sync_jobs' = [sync_jobs EXCEPT ![r] = Stored(sync_jobs[r])]
              /\ pc' = [pc EXCEPT ![r] = "complete"]
              /\ UNCHANGED outcome
           \/ /\ pc' = [pc EXCEPT ![r] = Raise(r)]
              /\ outcome' = [outcome EXCEPT ![r] = "failed"]
              /\ UNCHANGED <<db_activities, sync_jobs>>
        /\ UNCHANGED <<call, metricsVars, wsVars, lock_holder, lock_acquired, fetched>>

\* sync_job.status = completed (the script has no SyncJob); db.commit()
Complete(r) ==
    /\ pc[r] = "complete"
    /\ db_activities' = Commit(db_activities, r)
    /\ sync_jobs' = [sync_jobs EXCEPT ![r] =
                        IF IsNone(sync_jobs[r]) THEN None
                        ELSE Some([status |-> "completed", stored |-> "completed"])]
    /\ outcome' = [outcome EXCEPT ![r] = "completed"]
    /\ pc' = [pc EXCEPT ![r] = IF r = "sync_garmin" THEN "close" ELSE "finally"]
    /\ UNCHANGED <<call, metricsVars, wsVars, lock_holder, lock_acquired, fetched>>

\* except Exception: mark the SyncJob failed and commit, which also commits the
\* activities created so far; after a failed flush the commit itself raises
Except(r) ==
    /\ pc[r] \in {"except", "except_flush"}
    /\ IF IsNone(sync_jobs[r]) THEN UNCHANGED <<db_activities, sync_jobs>>
       ELSE IF pc[r] = "except"
       THEN /\ db_activities' = Commit(db_activities, r)
            /\ sync_jobs' = [sync_jobs EXCEPT ![r] =
                                Some([status |-> "failed", stored |-> "failed"])]
       ELSE /\ sync_jobs' = [sync_jobs EXCEPT ![r] =
                                Some([status |-> "failed", stored |-> Val(@).stored])]
            /\ UNCHANGED db_activities
    /\ outcome' = [outcome EXCEPT ![r] = "failed"]
    /\ pc' = [pc EXCEPT ![r] = IF pc[r] = "except" THEN "finally" ELSE "finally_flush"]
    /\ UNCHANGED <<call, metricsVars, wsVars, lock_holder, lock_acquired, fetched>>

\* sync_lock.py release_sync_lock: pg_advisory_unlock(1) in the session of r; in a
\* session whose flush failed the statement is refused and the lock stays
release_sync_lock(r) ==
    /\ pc[r] \in {"finally", "finally_flush"}
    /\ lock_holder' = IF lock_acquired[r] /\ pc[r] = "finally" /\ lock_holder = Some(r)
                      THEN None ELSE lock_holder
    /\ pc' = [pc EXCEPT ![r] = "close"]
    /\ UNCHANGED <<call, metricsVars, wsVars, lock_acquired, fetched, db_activities, sync_jobs, outcome>>

\* the session is closed: what it did not commit is rolled back
CloseSession(r) ==
    /\ pc[r] = "close"
    /\ db_activities' = Rollback(db_activities, r)
    /\ pc' = [pc EXCEPT ![r] = "done"]
    /\ UNCHANGED <<call, metricsVars, wsVars, lock_holder, lock_acquired, fetched, sync_jobs, outcome>>

\* the scheduler, a client or an operator calls the entry point again
Restart(r) ==
    /\ pc[r] = "done"
    /\ pc' = [pc EXCEPT ![r] = "idle"]
    /\ lock_acquired' = [lock_acquired EXCEPT ![r] = FALSE]
    /\ fetched' = [fetched EXCEPT ![r] = <<>>]
    /\ sync_jobs' = [sync_jobs EXCEPT ![r] = None]
    /\ outcome' = [outcome EXCEPT ![r] = "none"]
    /\ UNCHANGED <<call, metricsVars, wsVars, lock_holder, db_activities>>

-----------------------------------------------------------------------------
\* the state of a started process: no call made, no run, no row, no socket
Init ==
    /\ call = NoCall
    /\ pc = [r \in Runs |-> "idle"]
    /\ lock_holder = None
    /\ lock_acquired = [r \in Runs |-> FALSE]
    /\ fetched = [r \in Runs |-> <<>>]
    /\ db_activities = {}
    /\ sync_jobs = [r \in Runs |-> None]
    /\ outcome = [r \in Runs |-> "none"]
    /\ computed_metrics = {}
    /\ snapshot = 0
    /\ session = [c \in Callers |-> IdleSession]
    /\ active_connections = <<>>
    /\ accepted = 0
    \* per broadcast call: its place, the index of the list iterator, its local list
    \* `disconnected`, the sockets it called send_json on, and the sockets registered
    \* ever since it began
    /\ broadcast = [b \in Broadcasts |->
                       [pc |-> "idle", index |-> 0, disconnected |-> <<>>, sent |-> <<>>,
                        whole |-> {}]]

SpecReadiness == Init /\ [][CalculateReadiness \/ CalculateReadinessV2]_vars

SpecSync ==
    Init /\ [][\E r \in Runs :
        \/ Start(r)
        \/ acquire_sync_lock(r)
        \/ CreateSyncJob(r)
        \/ Authenticate(r)
        \/ Fetch(r)
        \/ StoreNext(r)
        \/ Create(r)
        \/ RecomputeMetrics(r)
        \/ Complete(r)
        \/ Except(r)
        \/ release_sync_lock(r)
        \/ CloseSession(r)
        \/ Restart(r)]_vars

SpecPenalty == Init /\ [][CalculateAcwrPenalty \/ CalculateAcwr \/ CalculateAcwrEwma]_vars

SpecLoad == Init /\ [][CalculateFatigue \/ CalculateAcuteLoad \/ CalculateChronicLoad]_vars

SpecSport == Init /\ [][EvaluateSportReadiness \/ CategorizeSports]_vars

SpecGuidance == Init /\ [][GenerateGuidance]_vars

SpecTexts == Init /\ [][CalculateFromTexts]_vars

SpecPmc == Init /\ [][CalculatePmcMetrics \/ RecomputeMetricsOver]_vars

SpecPurity == Init /\ [][CallScoringFunction]_vars

SpecClassifiers == Init /\ [][ClassifyDiscipline \/ InferIntensityZone]_vars

SpecPhases == Init /\ [][GeneratePhasesForEvent]_vars

SpecMetrics ==
    Init /\ [][ChangeSnapshot \/ \E c \in Callers : \/ CallMetrics(c)
                                                   \/ ComputeDailyMetrics(c)
                                                   \/ SelectExisting(c)
                                                   \/ Flush(c)
                                                   \/ EndSession(c)]_vars

SpecWebsocket ==
    Init /\ [][\/ connect
               \/ \E websocket \in 1..MaxSockets : disconnect(websocket)
               \/ \E b \in Broadcasts : broadcast_message(b)]_vars

SpecComponents ==
    Init /\ [][CalculateEventProximityModifier \/ CalculateSleepTrendComponent
                  \/ CalculateRecentTrainingFatigueV2]_vars

-----------------------------------------------------------------------------
(* Properties                                                              *)

\* C1: every result of calculate_readiness and of calculate_readiness_v2 has an integer
\* score between 0 and 100, and its category is the band the score falls in
\* (v1: high >= 85, moderate >= 70, low >= 55, recovery >= 40, else rest;
\*  v2: high >= 80, moderate >= 65, low >= 50, recovery >= 35, else rest).
C1_ScoreInRangeCategoryMatchesBand ==
    /\ call.fn = "calculate_readiness" =>
          /\ call.ret.score \in 0..100
          /\ call.ret.category =
                (IF call.ret.score >= 85 THEN "high"
                 ELSE IF call.ret.score >= 70 THEN "moderate"
                 ELSE IF call.ret.score >= 55 THEN "low"
                 ELSE IF call.ret.score >= 40 THEN "recovery" ELSE "rest")
    /\ call.fn = "calculate_readiness_v2" =>
          /\ call.ret.score \in 0..100
          /\ call.ret.category =
                (IF call.ret.score >= 80 THEN "high"
                 ELSE IF call.ret.score >= 65 THEN "moderate"
                 ELSE IF call.ret.score >= 50 THEN "low"
                 ELSE IF call.ret.score >= 35 THEN "recovery" ELSE "rest")

\* a v1 call whose components add up to 121 and whose score is cut to 100
C1_Witness ==
    /\ call.fn = "calculate_readiness"
    /\ call.args.hrv_today = Some(80) /\ call.args.hrv_7day_avg = Some(50)
    /\ call.args.sleep_hours = Some(120) /\ call.args.sleep_score = Some(85)
    /\ call.args.body_battery_morning = Some(100)
    /\ call.args.recent_activities = <<>>
    /\ call.args.avg_readiness_3_days = 80
    /\ call.ret.score = 100 /\ call.ret.category = "high"

\* C2: the v2 score is clamp(70 + HRV + Sleep + SleepTrend + BodyBattery - RecentFatigue
\* - ACWRPenalty + Trend + EventModifier) with each component applied exactly once, the
\* factor list has at most one entry per factor name, and an A-priority event 3 days
\* away adds exactly 10 to the unclamped score with exactly one 'Event Proximity' factor.
C2_EachComponentOnce ==
    call.fn = "calculate_readiness_v2" =>
        LET a == call.args
            has_hrv == ~IsNone(a.hrv_today) /\ ~IsNone(a.hrv_7day_avg)
                       /\ Val(a.hrv_7day_avg) > 0
            hrv == IF has_hrv
                   THEN calculate_hrv_component(Val(a.hrv_today), Val(a.hrv_7day_avg)) ELSE 0
            sleep == IF IsNone(a.sleep_hours) THEN 0
                     ELSE calculate_sleep_component(Val(a.sleep_hours), a.sleep_target,
                                                    a.sleep_score)
            sleep_trend == calculate_sleep_trend_component(a.sleep_hours_3_days,
                                                           a.sleep_target)
            bb == calculate_body_battery_component(a.body_battery_morning)
            fatigue == calculate_recent_training_fatigue_v2(a.recent_activities, a.today, 5)
            penalty == DFloorTimes(calculate_acwr_penalty(a.acwr), PointScale)
            trend == IF a.avg_readiness_3_days < 50 THEN -5
                     ELSE IF a.avg_readiness_3_days > 75 THEN 3 ELSE 0
            event == calculate_event_proximity_modifier(a.days_to_next_event,
                                                        a.next_event_priority)
            total == Pts(70) + hrv + sleep + sleep_trend + bb - fatigue - penalty
                     + Pts(trend) + Pts(event)
            names == [i \in 1..Len(call.ret.factors) |-> call.ret.factors[i].name]
        IN  /\ call.ret.score = Max2(0, Min2(Pts(100), total)) \div PointScale
            /\ \A i, j \in 1..Len(names) : i # j => names[i] # names[j]
            /\ (a.next_event_priority = "A" /\ a.days_to_next_event = Some(3)) =>
                  /\ event = 10
                  /\ Cardinality({i \in 1..Len(names) : names[i] = "Event Proximity"}) = 1

\* C4: two runs are never at once between acquiring and releasing the sync lock, no
\* run fetches or writes activities unless its session holds the lock, and a run that
\* found the lock held has written nothing.
C4_SingleFlight ==
    LET working == {r \in Runs : pc[r] \in {"fetch", "store", "create", "metrics", "complete"}}
    IN  /\ Cardinality(working) <= 1
        /\ \A r \in working : lock_holder = Some(r)
        /\ \A r \in Runs : outcome[r] = "skipped" =>
              ~\E x \in db_activities : x.run = r /\ ~x.committed

\* C5: the ACWR penalty is 5 below 0.8, 0 on [0.8, 1.3], exactly 0, 10, 20 and 25 at
\* the ratios 1.3, 1.5, 2.0 and 3.0, and never more than 25.
C5_PenaltyAtBreakpoints ==
    call.fn = "calculate_acwr_penalty" =>
        /\ DLt(call.args.acwr, Float[80]) => call.ret = Float[500]
        /\ (DLe(Float[80], call.args.acwr) /\ DLe(call.args.acwr, Float[130])) => call.ret = Float[0]
        /\ call.args.acwr = Float[150] => call.ret = Float[1000]
        /\ call.args.acwr = Float[200] => call.ret = Float[2000]
        /\ call.args.acwr = Float[300] => call.ret = Float[2500]
        /\ DLe(call.ret, Float[2500])

\* C3: calculate_fatigue returns exactly the four dimensions upper, lower, cardio and
\* cns, each with a value in [0, 1], for every list of activities and lookback.
C3_FatigueVectorInUnitRange ==
    call.fn = "calculate_fatigue" =>
        /\ DOMAIN call.ret = {"upper", "lower", "cardio", "cns"}
        /\ \A dimension \in DOMAIN call.ret : call.ret[dimension] \in 0..FatigueScale

\* two maximal sessions today, whose lower-body sum 1.44 is cut to 1
C3_Witness ==
    /\ call.fn = "calculate_fatigue"
    /\ call.args.activities = <<LoadAct(Some(Today), "hyrox", "max", Some(60), Some(100)),
                                LoadAct(Some(Today), "hyrox", "max", Some(60), Some(100))>>
    /\ call.ret.lower = FatigueScale
    /\ call.ret.upper < FatigueScale

\* C6: only activities timestamped in [end - 7 days, end] add to the acute load, only
\* those in [end - 28 days, end] to the chronic load, only those 0 to lookback_days
\* whole days old to the fatigue vector: dropping every other activity (undated and
\* future ones included) leaves the result unchanged, and every activity counted in
\* the acute load is counted in the chronic load.
C6_OnlyWindowActivitiesCount ==
    LET Dated(a) == ~IsNone(a.started_at)
        InAcute(a) == Dated(a) /\ Val(a.started_at) \in (call.args.end_date - 7 * HoursPerDay)..call.args.end_date
        InChronic(a) == Dated(a) /\ Val(a.started_at) \in (call.args.end_date - 28 * HoursPerDay)..call.args.end_date
        InLookback(a) == Dated(a) /\ Val(a.started_at) <= call.args.today
                         /\ (call.args.today - Val(a.started_at)) \div HoursPerDay <= call.args.lookback_days
    IN  /\ call.fn = "calculate_acute_load" =>
              call.ret = calculate_acute_load(SelectSeq(call.args.activities, InAcute),
                                              call.args.end_date, 7)
        /\ call.fn = "calculate_chronic_load" =>
              call.ret = calculate_chronic_load(SelectSeq(call.args.activities, InChronic),
                                                call.args.end_date, 28)
        /\ call.fn = "calculate_fatigue" =>
              call.ret = calculate_fatigue(SelectSeq(call.args.activities, InLookback),
                                           call.args.today, call.args.lookback_days)
        /\ call.fn \in {"calculate_acute_load", "calculate_chronic_load"} =>
              \A i \in 1..Len(call.args.activities) :
                  load_counted(call.args.activities[i], call.args.end_date, 7)
                      => load_counted(call.args.activities[i], call.args.end_date, 28)

\* an acute load made of the activity exactly 7 days old, the one an hour older left out
C6_Witness ==
    /\ call.fn = "calculate_acute_load"
    /\ call.args.activities =
          <<LoadAct(Some(Today - 7 * HoursPerDay), "swim", "easy", Some(30), Some(40)),
            LoadAct(Some(Today - 7 * HoursPerDay - 1), "run", "moderate", Some(90), Some(70))>>
    /\ call.ret = 40 * LoadScale

\* C7: per sport key the status is 'not_ready' if the readiness score is below the
\* minimum, or a limited fatigue dimension exceeds its ceiling by more than 0.1, or the
\* ACWR exceeds its ceiling by more than 0.3; otherwise 'caution' if a limited dimension
\* or the ACWR exceeds its ceiling; otherwise 'ready' (a 'not_ready' is never upgraded).
C7_StatusRule ==
    call.fn = "evaluate_sport_readiness" =>
        \A sport \in DOMAIN SPORT_REQUIREMENTS :
            LET requirements == SPORT_REQUIREMENTS[sport]
                limits == requirements.fatigue_limits
                value(i) == call.args.literal.fatigue[limits[i][1]]
                hard == \/ call.args.readiness_score < requirements.min_readiness
                        \/ \E i \in 1..Len(limits) : value(i) > limits[i][2] + 10
                        \/ call.args.literal.acwr > requirements.acwr_max + 30
                soft == \/ \E i \in 1..Len(limits) : value(i) > limits[i][2]
                        \/ call.args.literal.acwr > requirements.acwr_max
            IN  call.ret[sport].status =
                    (IF hard THEN "not_ready" ELSE IF soft THEN "caution" ELSE "ready")

\* C8: per sport key the blockers are exactly one entry per violated constraint
\* (readiness below the minimum, each limited dimension above its ceiling, ACWR above
\* its ceiling), the status is 'ready' exactly when there is no blocker, and
\* categorize_sports puts every sport key in exactly one bucket, that of its status.
C8_OneBlockerPerViolation ==
    /\ call.fn = "evaluate_sport_readiness" =>
          \A sport \in DOMAIN SPORT_REQUIREMENTS :
              LET requirements == SPORT_REQUIREMENTS[sport]
                  limits == requirements.fatigue_limits
                  violated ==
                      (IF call.args.readiness_score < requirements.min_readiness
                       THEN {"Readiness"} ELSE {})
                      \cup {limits[i][1] \o " fatigue" : i \in
                               {j \in 1..Len(limits) :
                                   call.args.literal.fatigue[limits[j][1]] > limits[j][2]}}
                      \cup (IF call.args.literal.acwr > requirements.acwr_max
                            THEN {"ACWR"} ELSE {})
                  blockers == call.ret[sport].blockers
              IN  /\ {blockers[i] : i \in 1..Len(blockers)} = violated
                  /\ Len(blockers) = Cardinality(violated)
                  /\ call.ret[sport].status = "ready" <=> blockers = <<>>
    /\ call.fn = "categorize_sports" =>
          /\ DOMAIN call.ret = {"ready", "caution", "not_ready"}
          /\ \A sport \in DOMAIN call.args.sport_readiness :
                \A bucket \in DOMAIN call.ret :
                    Cardinality({i \in 1..Len(call.ret[bucket]) : call.ret[bucket][i] = sport})
                        = IF call.args.sport_readiness[sport].status = bucket THEN 1 ELSE 0

\* a verdict map with a sport without blockers and one with four of them
C8_Witness ==
    /\ call.fn = "evaluate_sport_readiness"
    /\ call.ret.easy_bike = Verdict("ready", <<>>)
    /\ call.ret.moderate_run.status = "caution"
    /\ call.ret.hyrox_intervals.blockers =
          <<"lower fatigue", "upper fatigue", "cns fatigue", "ACWR">>

\* C9: for a readiness score in the 40-59 band the output collapses to the full-rest
\* suggestion (with 'All structured training' added to avoid) only if every one of
\* the four fatigue dimensions exceeds 0.7; with a dimension at or below 0.7 the
\* band's default lists are returned.
C9_CollapseOnlyIfEveryDimensionHigh ==
    (call.fn = "generate_guidance" /\ call.args.readiness_score \in 40..59) =>
        LET every == \A dimension \in DOMAIN call.args.literal.fatigue :
                         call.args.literal.fatigue[dimension] > 70
            collapsed == /\ call.ret.suggested = <<"Complete rest", "Light walking", "Stretching">>
                         /\ \E i \in 1..Len(call.ret.avoid) :
                               call.ret.avoid[i] = "All structured training"
            default == /\ call.ret.suggested = <<"Easy cardio (Zone 1-2)", "Mobility work",
                                                 "Light technique", "Recovery activities">>
                       /\ call.ret.avoid = <<"High intensity", "Heavy lifting", "Long sessions",
                                             "Max efforts", "Competition">>
        IN  /\ collapsed => every
            /\ ~every => default

\* C9 as the code has it: in the 40-59 band the output collapses to the full-rest
\* suggestion exactly when at least one fatigue dimension exceeds 0.7; when none
\* does, the band's default avoid and suggested lists are returned.
C9_CollapseIfSomeDimensionHigh ==
    (call.fn = "generate_guidance" /\ call.args.readiness_score \in 40..59) =>
        LET some == \E dimension \in DOMAIN call.args.literal.fatigue :
                        call.args.literal.fatigue[dimension] > 70
            collapsed == /\ call.ret.suggested = <<"Complete rest", "Light walking", "Stretching">>
                         /\ call.ret.avoid = <<"High intensity", "Heavy lifting", "Long sessions",
                                               "Max efforts", "Competition",
                                               "All structured training">>
            default == /\ call.ret.suggested = <<"Easy cardio (Zone 1-2)", "Mobility work",
                                                 "Light technique", "Recovery activities">>
                       /\ call.ret.avoid = <<"High intensity", "Heavy lifting", "Long sessions",
                                             "Max efforts", "Competition">>
        IN  IF some THEN collapsed ELSE default

\* score 59 and only the CNS above 0.7: the output is the full-rest one
C9_Witness ==
    /\ call.fn = "generate_guidance"
    /\ call.args.readiness_score = 59
    /\ call.args.literal.fatigue = [upper |-> 30, lower |-> 65, cardio |-> 70, cns |-> 80]
    /\ call.ret.suggested = <<"Complete rest", "Light walking", "Stretching">>

\* C10: for every readiness score and fatigue vector the avoid and the suggested list
\* are both non-empty and hold no item twice.
C10_ListsNonEmptyNoDuplicates ==
    call.fn = "generate_guidance" =>
        /\ call.ret.avoid # <<>>
        /\ call.ret.suggested # <<>>
        /\ \A i, j \in 1..Len(call.ret.avoid) : i # j => call.ret.avoid[i] # call.ret.avoid[j]
        /\ \A i, j \in 1..Len(call.ret.suggested) :
              i # j => call.ret.suggested[i] # call.ret.suggested[j]


\* C11: an activity whose started_at is a text that is no ISO date-time is left out by
\* calculate_fatigue, calculate_acute_load, calculate_chronic_load and both
\* recent-training fatigues, a valid ISO text counts as the date-time it denotes, and
\* the call returns the result computed from the remaining activities without raising.
C11_UnparseableTimestampExcluded ==
    call # NoCall =>
        LET Usable(activity) == \/ ~IsStr(activity.started_at)
                                \/ activity.started_at[2] \in DOMAIN IsoTable
            remaining == parse_started_at(SelectSeq(call.args.activities, Usable))
        IN  call.ret = aggregate(call.fn, remaining, call.args.today)

\* C12: a call with invalid window bounds (recompute_metrics with the end date
\* before the start date, calculate_pmc_metrics with a negative number of days)
\* ends with a surfaced error, never with a normal return.
C12_InvalidBoundsRaise ==
    /\ (call.fn = "recompute_metrics" /\ call.args.end_date < call.args.start_date)
           => "raised" \in DOMAIN call.ret
    /\ (call.fn = "calculate_pmc_metrics" /\ call.args.days < 0)
           => "raised" \in DOMAIN call.ret


\* C14: calculate_pmc_metrics returns days + 1 points on consecutive ascending
\* calendar dates ending on the date of end_date; each point reports as tss the
\* summed load of its calendar day, and before rounding ctl = ctl_prev +
\* (tss - ctl_prev)/42, atl = atl_prev + (tss - atl_prev)/7, tsb = ctl_prev -
\* atl_prev, where the values before the first point are the seed: the mean daily
\* load of the days with an activity in the window, 0 without one.
C14_PmcRecurrenceOverCalendarDays ==
    (call.fn = "calculate_pmc_metrics" /\ call.args.days >= 0) =>
        LET activities == call.args.activities
            days == call.args.days
            points == call.ret.value
            series == pmc_series(activities, call.args.end_date, days)
            scale == 6 * 42 ^ (days + 1)
            load(i, day) ==
                IF /\ ~IsNone(activities[i].started_at)
                   /\ DateOf(Val(activities[i].started_at)) = day
                   /\ ~IsNone(activities[i].training_load)
                THEN Val(activities[i].training_load) ELSE 0
            tss(day) == SumSeq([i \in 1..Len(activities) |-> load(i, day)])
            history == {DateOf(Val(activities[i].started_at)) :
                           i \in {j \in 1..Len(activities) :
                                     load_counted(activities[j], call.args.end_date, days)}}
            seed == IF history = {} THEN 0
                    ELSE (SumSeq([i \in 1..days + 1 |-> series[i].tss]) * scale)
                             \div Cardinality(history)
            ctl_prev(i) == IF i = 1 THEN seed ELSE series[i - 1].ctl
            atl_prev(i) == IF i = 1 THEN seed ELSE series[i - 1].atl
        IN  /\ Len(points) = days + 1
            /\ \A i \in 1..Len(points) :
                  /\ points[i].date = DateOf(call.args.end_date) - days + i - 1
                  /\ points[i].tss = 10 * tss(points[i].date)
                  /\ series[i].ctl = ctl_prev(i) + (tss(points[i].date) * scale - ctl_prev(i)) \div 42
                  /\ series[i].atl = atl_prev(i) + (tss(points[i].date) * scale - atl_prev(i)) \div 7
                  /\ series[i].tsb = ctl_prev(i) - atl_prev(i)

C13_AbsentComponentLeftOut ==
    (call.fn \in {"calculate_readiness", "calculate_readiness_v2"}) =>
        LET a == call.args
            readiness(b) ==
                IF call.fn = "calculate_readiness"
                THEN calculate_readiness(b.hrv_today, b.hrv_7day_avg, b.sleep_hours,
                         b.sleep_target, b.sleep_score, b.body_battery_morning,
                         b.recent_activities, b.avg_readiness_3_days, b.today)
                ELSE calculate_readiness_v2(b.hrv_today, b.hrv_7day_avg, b.sleep_hours,
                         b.sleep_target, b.sleep_score, b.sleep_hours_3_days,
                         b.body_battery_morning, b.recent_activities,
                         b.avg_readiness_3_days, b.today, b.acwr, b.days_to_next_event,
                         b.next_event_priority)
            LeftOut(name, neutral) ==
                LET Other(factor) == factor.name # name
                    with == readiness(neutral)
                IN  /\ \A i \in 1..Len(call.ret.factors) : Other(call.ret.factors[i])
                    /\ \E i \in 1..Len(with.factors) :
                          with.factors[i].name = name /\ with.factors[i].value = 0
                    /\ call.ret.score = with.score
                    /\ call.ret.factors = SelectSeq(with.factors, Other)
        IN  /\ (IsNone(a.hrv_today) \/ IsNone(a.hrv_7day_avg) \/ Val(a.hrv_7day_avg) <= 0)
                   => LeftOut("HRV", [a EXCEPT !.hrv_today = Some(50),
                                               !.hrv_7day_avg = Some(50)])
            /\ IsNone(a.sleep_hours)
                   => LeftOut("Sleep", [a EXCEPT !.sleep_hours = Some(a.sleep_target),
                                                 !.sleep_score = None])
            /\ IsNone(a.body_battery_morning)
                   => LeftOut("Body Battery", [a EXCEPT !.body_battery_morning = Some(70)])

C13_Witness ==
    /\ call.fn = "calculate_readiness_v2"
    /\ IsNone(call.args.hrv_today) /\ IsNone(call.args.body_battery_morning)
    /\ ~IsNone(call.args.sleep_hours)
    /\ \E i \in 1..Len(call.ret.factors) : call.ret.factors[i].name = "Sleep"
    /\ call.ret.score \in 1..99

\* C16: calculate_event_proximity_modifier returns 0 without an event; for
\* priority A +10 up to 3 days, +5 for 4..7, -5 for 8..14, 0 beyond 14; for
\* priority B +5 up to 3 days and 0 otherwise; 0 for every other priority.
C16_EventProximityTable ==
    call.fn = "calculate_event_proximity_modifier" =>
        LET days == call.args.days_to_event
            priority == call.args.event_priority
        IN  /\ IsNone(days) => call.ret = 0
            /\ (~IsNone(days) /\ priority = "A") =>
                  /\ Val(days) <= 3 => call.ret = 10
                  /\ Val(days) \in 4..7 => call.ret = 5
                  /\ Val(days) \in 8..14 => call.ret = -5
                  /\ Val(days) > 14 => call.ret = 0
            /\ (~IsNone(days) /\ priority = "B") =>
                  /\ Val(days) <= 3 => call.ret = 5
                  /\ Val(days) > 3 => call.ret = 0
            /\ priority \notin {"A", "B"} => call.ret = 0

C16_Witness ==
    /\ call.fn = "calculate_event_proximity_modifier"
    /\ call.args.days_to_event = Some(8) /\ call.args.event_priority = "A"
    /\ call.ret = -5

\* C17: calculate_recent_training_fatigue_v2 is the sum, over the activities 0 to
\* 4 calendar days before the evaluation date, of the impact of the intensity
\* (easy 3, moderate 10, hard 20, max 30; 3 for a label outside the table) times
\* max(0.25, 1 - 0.15 * offset), capped at 30: nothing gives 0, one easy activity
\* today 3, one max activity today 30, two of them 30, and one activity of today
\* gives strictly less when it is one day older.
C17_RecentFatigueV2 ==
    call.fn = "calculate_recent_training_fatigue_v2" =>
        LET activities == call.args.activities
            today == call.args.today
            impact(zone) == CASE zone = "easy" -> 3 [] zone = "moderate" -> 10
                              [] zone = "hard" -> 20 [] zone = "max" -> 30 [] OTHER -> 3
            offset(a) == DateOf(today) - DateOf(Val(a.started_at))
            fatigue(a) ==
                IF IsNone(a.started_at) \/ offset(a) \notin 0..4 THEN 0
                ELSE impact(a.intensity_zone) * Max2(25, 100 - 15 * offset(a))
                         * (PointScale \div 100)
            On(i, zone) == /\ ~IsNone(activities[i].started_at)
                           /\ offset(activities[i]) = 0
                           /\ activities[i].intensity_zone = zone
            older == [i \in 1..Len(activities) |->
                         [activities[i] EXCEPT !.started_at = Some(Val(@) - HoursPerDay)]]
        IN  /\ call.ret = Min2(Pts(30), SumSeq([i \in 1..Len(activities) |->
                                                   fatigue(activities[i])]))
            /\ activities = <<>> => call.ret = 0
            /\ (Len(activities) = 1 /\ On(1, "easy")) => call.ret = Pts(3)
            /\ (Len(activities) = 1 /\ On(1, "max")) => call.ret = Pts(30)
            /\ (Len(activities) = 2 /\ On(1, "max") /\ On(2, "max")) => call.ret = Pts(30)
            /\ (Len(activities) = 1 /\ ~IsNone(activities[1].started_at)
                   /\ offset(activities[1]) = 0)
                   => calculate_recent_training_fatigue_v2(older, today, 5) < call.ret

C17_Witness ==
    /\ call.fn = "calculate_recent_training_fatigue_v2"
    /\ Len(call.args.activities) = 2
    /\ \A i \in 1..2 : call.args.activities[i].intensity_zone = "max"
    /\ \A i \in 1..2 : call.args.activities[i].started_at = Some(call.args.today + 2)
    /\ call.ret = Pts(30)

\* C18: calculate_sleep_trend_component returns 0 for fewer than 3 nights and
\* otherwise (sum of the nights - 3 * target) / 3 * 10 clamped to [-10, +10]:
\* three nights at the target give 0, three nights of 4.0 h against 7.5 h give
\* -10 and three nights of 10.0 h give +10.
C18_SleepTrendClamped ==
    call.fn = "calculate_sleep_trend_component" =>
        LET nights == call.args.sleep_hours_3_days
            target == call.args.sleep_target
            \* in tenths of an hour: 30 is the 3 h that are worth 10 points
            debt == SumSeq(nights) - 3 * target
        IN  /\ Len(nights) < 3 => call.ret = 0
            /\ (Len(nights) >= 3 /\ debt >= 30) => call.ret = Pts(10)
            /\ (Len(nights) >= 3 /\ debt <= -30) => call.ret = Pts(-10)
            /\ (Len(nights) >= 3 /\ debt \in -30..30) => 3 * call.ret = debt * PointScale
            /\ nights = <<target, target, target>> => call.ret = 0
            /\ (nights = <<40, 40, 40>> /\ target = 75) => call.ret = Pts(-10)
            /\ (nights = <<100, 100, 100>> /\ target = 75) => call.ret = Pts(10)

C18_Witness ==
    /\ call.fn = "calculate_sleep_trend_component"
    /\ call.args.sleep_hours_3_days = <<40, 40, 40>> /\ call.args.sleep_target = 75
    /\ call.ret = Pts(-10)

\* C19: for non-negative loads both ACWR estimators return a value >= 0 and
\* divide only by a positive load: calculate_acwr returns exactly 1.0 when the
\* chronic load is <= 0, and calculate_acwr_ewma returns exactly 1.0 when fewer
\* than 7 daily loads are supplied or the chronic EWMA of the zero-left-padded
\* 28-day series is below 1.
C19_AcwrNeutralWithoutChronicLoad ==
    /\ call.fn = "calculate_acwr" =>
          /\ DLe(Float[0], call.ret)
          /\ DLe(call.args.chronic, Float[0]) => call.ret = Float[100]
          /\ DLt(Float[0], call.args.chronic)
                 => call.ret = DDiv(call.args.acute, call.args.chronic)
    /\ call.fn = "calculate_acwr_ewma" =>
          LET daily_loads == call.args.daily_loads
              padded == [i \in 1..Max2(0, 28 - Len(daily_loads)) |-> Float[0]] \o daily_loads
              loads_28d == [i \in 1..28 |-> padded[Len(padded) - 28 + i]]
          IN  /\ DLe(Float[0], call.ret)
              /\ Len(daily_loads) < 7 => call.ret = Float[100]
              /\ Len(daily_loads) >= 7 =>
                    \E load \in {[acute |-> ewma(loads_28d, 7),
                                   chronic |-> ewma(loads_28d, 28)]} :
                        IF DLt(load.chronic, Float[100]) THEN call.ret = Float[100]
                        ELSE call.ret = DDiv(load.acute, load.chronic)

C19_Witness ==
    /\ call.fn = "calculate_acwr_ewma"
    /\ Len(call.args.daily_loads) = 7
    /\ \A i \in 1..7 : call.args.daily_loads[i] = DFromNat(1)
    /\ call.ret = Float[100]

\* C20: for the 28 daily loads 50, 51, ..., 77 calculate_acwr_ewma returns an
\* ACWR greater than 1.5.
C20_SteadyIncreaseIsDanger ==
    (/\ call.fn = "calculate_acwr_ewma"
     /\ call.args.daily_loads = [i \in 1..28 |-> DFromNat(49 + i)])
        => DLt(Float[150], call.ret)

\* C25: a run that acquired the advisory lock has released it when the run has
\* ended, on every path, and the lock is only ever released by the run that
\* holds it, in the finally block of a run that acquired it.
C25_AcquiredLockReleased ==
    /\ [](\A r \in Runs : pc[r] = "done" => lock_holder # Some(r))
    /\ [][\A r \in Runs : (lock_holder = Some(r) /\ lock_holder' = None)
              => (pc[r] = "finally" /\ lock_acquired[r])]_vars

\* C26: whatever the interleaving of the runs, the activity store holds at most
\* one Activity per garmin_id and none without an id; a fetched activity whose
\* garmin_id the run finds stored is skipped, and a committed Activity is never
\* removed or replaced.
C26_OneActivityPerGarminId ==
    /\ [](\A x, y \in db_activities : x.garmin_id = y.garmin_id => x = y)
    /\ [](\A x \in db_activities : x.garmin_id # NoId)
    /\ [][\A r \in Runs :
              (/\ pc[r] = "store" /\ fetched[r] # <<>>
               /\ \E x \in db_activities : /\ x.garmin_id = Head(fetched[r])
                                           /\ (x.committed \/ x.run = r))
                  => \/ pc'[r] = pc[r] /\ fetched'[r] = fetched[r]
                     \/ pc'[r] = "store" /\ fetched'[r] = Tail(fetched[r])]_vars
    /\ [][\A x \in db_activities : x.committed => x \in db_activities']_vars

C26_Witness ==
    \E r \in Runs \ {"sync_garmin"}, x \in db_activities :
        /\ x.committed /\ x.run # r
        /\ pc[r] = "store" /\ fetched[r] = <<x.garmin_id, NoId>>

\* C27: when a run of a job or of the manual trigger has ended, its SyncJob
\* record is stored as completed if the run returned normally and as failed if it
\* raised, never as running and never missing; a run skipped because the lock is
\* held or auto-sync is disabled has created no SyncJob.
C27_SyncJobRecordsOutcome ==
    \A r \in Runs \ {"sync_garmin"} :
        pc[r] = "done" =>
            /\ outcome[r] \in {"completed", "failed"}
                   => /\ ~IsNone(sync_jobs[r])
                      /\ Val(sync_jobs[r]).status = outcome[r]
                      /\ Val(sync_jobs[r]).stored = outcome[r]
            /\ outcome[r] \in {"skipped", "disabled"} => IsNone(sync_jobs[r])

\* C30: for every sport key the verdict of evaluate_sport_readiness is monotone: with
\* a higher readiness score, or one fatigue value lowered, or a lower ACWR, the other
\* inputs fixed, the status is never worse in the order ready < caution < not_ready
\* and every blocker of the new verdict is a blocker of the old one.
C30_VerdictMonotone ==
    call.fn = "evaluate_sport_readiness" =>
        LET score == call.args.readiness_score
            fatigue == call.args.literal.fatigue
            acwr == call.args.literal.acwr
            Rank(status) == CASE status = "ready" -> 0 [] status = "caution" -> 1
                              [] status = "not_ready" -> 2
            NoWorse(better) ==
                \A sport \in DOMAIN call.ret :
                    /\ Rank(better[sport].status) <= Rank(call.ret[sport].status)
                    /\ \A i \in 1..Len(better[sport].blockers) :
                           \E j \in 1..Len(call.ret[sport].blockers) :
                               call.ret[sport].blockers[j] = better[sport].blockers[i]
        IN  /\ \A better \in {evaluate_sport_readiness(higher, call.args.fatigue,
                                                          call.args.acwr) :
                                    higher \in {s \in {40, 55, 70, 75, 100} : s > score}} :
                   NoWorse(better)
            /\ \A dimension \in DOMAIN fatigue :
                   \A better \in {evaluate_sport_readiness(
                                       score,
                                       [call.args.fatigue EXCEPT ![dimension] = Float[reduced]],
                                       call.args.acwr) :
                                   reduced \in {n \in {0, 50, 60, 70, 80} : n < fatigue[dimension]}} :
                       NoWorse(better)
            /\ \A better \in {evaluate_sport_readiness(score, call.args.fatigue,
                                                          Float[reduced]) :
                                    reduced \in {n \in {100, 150, 170, 200, 210} : n < acwr}} :
                   NoWorse(better)
\* a lower fatigue of 0.8 keeps moderate_run from ready, and lowering it alone to 0.7
\* and to 0.3 moves the verdict to caution and to ready
C30_Witness ==
    /\ call.fn = "evaluate_sport_readiness"
    /\ call.args.literal.fatigue.lower = 80
    /\ call.ret.moderate_run.status = "not_ready"
    /\ evaluate_sport_readiness(call.args.readiness_score,
                                [call.args.fatigue EXCEPT !.lower = Float[70]],
                                call.args.acwr).moderate_run.status = "caution"
    /\ evaluate_sport_readiness(call.args.readiness_score,
                                [call.args.fatigue EXCEPT !.lower = Float[30]],
                                call.args.acwr).moderate_run.status = "ready"

\* C22: classify_discipline returns one of run, bike, swim, strength, hyrox, other,
\* resolved in this order: a functional_training or hiit type for which the hyrox
\* heuristic holds gives hyrox; otherwise a type of the static table gives its table
\* discipline, whatever the name; otherwise a name with a hyrox keyword gives hyrox;
\* otherwise other.
C22_DisciplineResolutionOrder ==
    call.fn = "classify_discipline" =>
        LET activity == call.args.activity
            raw_type == lower(activity.activity_type)
            name == lower(IF activity.activity_name = None THEN ""
                          ELSE Val(activity.activity_name))
            keyword == \E k \in 1..Len(HYROX_KEYWORDS) :
                           \E i \in 1..Len(name) :
                               /\ i + Len(HYROX_KEYWORDS[k]) - 1 <= Len(name)
                               /\ SubSeq(name, i, i + Len(HYROX_KEYWORDS[k]) - 1)
                                      = HYROX_KEYWORDS[k]
            functional == raw_type \in {"functional_training", "hiit"}
            heuristic == keyword \/ (functional /\ activity.duration_minutes \in 30..120)
        IN  /\ call.ret \in {"run", "bike", "swim", "strength", "hyrox", "other"}
            /\ functional /\ heuristic => call.ret = "hyrox"
            /\ ~(functional /\ heuristic) /\ raw_type \in DOMAIN GARMIN_TYPE_TO_DISCIPLINE
                   => call.ret = GARMIN_TYPE_TO_DISCIPLINE[raw_type]
            /\ raw_type \notin DOMAIN GARMIN_TYPE_TO_DISCIPLINE
                   => call.ret = IF keyword THEN "hyrox" ELSE "other"
\* a recognised type keeps its table discipline under a name with a hyrox keyword
C22_Witness ==
    /\ call.fn = "classify_discipline"
    /\ call.args.activity.activity_type = "running"
    /\ call.args.activity.activity_name = Some("HYROX Sim")
    /\ call.ret = "run"

\* C23: infer_intensity_zone returns the default "moderate", and does not raise, for an
\* activity with no usable average heart rate (or with no user maximum known) and
\* with no training-effect value under either field name.
C23_ZoneDefaultsToModerate ==
    call.fn = "infer_intensity_zone" =>
        LET activity == call.args.activity
            usable_hr == /\ DictGet(activity, "avg_hr", None) \notin {None, Some(0)}
                         /\ call.args.user_max_hr \notin {None, Some(0)}
            no_effect == /\ "aerobic_training_effect" \notin DOMAIN activity
                         /\ "activityTrainingEffect" \notin DOMAIN activity
        IN  ~usable_hr /\ no_effect => call.ret = Returned("moderate")

\* C24: for every event type, a type without a template using the template of
\* "other", generate_phases_for_event returns exactly the four phases base, build,
\* peak and taper, all referencing the event; sorted by start date, each phase ends
\* on the day the next one starts; the taper ends on the event date and the base
\* phase is strictly longer than every other phase.
C24_FourSequentialPhases ==
    call.fn = "generate_phases_for_event" =>
        LET event == call.args.event
            phases == call.ret
            Of(phase_type) == {i \in 1..Len(phases) : phases[i].phase_type = phase_type}
            Days(i) == phases[i].end_date - phases[i].start_date
        IN  /\ Len(phases) = 4
            /\ \A phase_type \in {"base", "build", "peak", "taper"} :
                   Cardinality(Of(phase_type)) = 1
            /\ \A i \in 1..Len(phases) : phases[i].target_event_id = event.id
            /\ \A i, j \in 1..Len(phases) :
                   i # j => phases[i].start_date # phases[j].start_date
            /\ \A i \in 1..Len(phases) :
                   (\E j \in 1..Len(phases) : phases[j].start_date > phases[i].start_date)
                   => \E j \in 1..Len(phases) :
                          /\ phases[j].start_date = phases[i].end_date
                          /\ phases[j].start_date > phases[i].start_date
                          /\ \A k \in 1..Len(phases) :
                                 phases[k].start_date > phases[i].start_date
                                 => phases[k].start_date >= phases[j].start_date
            /\ \A i \in Of("taper") : phases[i].end_date = event.event_date
            /\ \A i \in Of("base"), j \in 1..Len(phases) : j # i => Days(i) > Days(j)
            /\ event.event_type \notin DOMAIN PHASE_TEMPLATES
                   => phases = generate_phases_for_event([event EXCEPT !.event_type = "other"])
\* an event of a type without a template gets the four phases of "other"
C24_Witness ==
    /\ call.fn = "generate_phases_for_event"
    /\ call.args.event.event_type = "ultra_trail"
    /\ Len(call.ret) = 4
    /\ call.ret[3].phase_type = "build"
    /\ call.ret[3].end_date - call.ret[3].start_date = 28

\* C28: under every interleaving of compute_daily_metrics and recompute_metrics calls
\* of concurrent callers the store holds at most one ComputedMetrics record per date;
\* a recomputation that is committed leaves, for each date it covered, the record of
\* that date with the values it computed; and where those values come from the same
\* snapshot as the values stored before, the stored values stay as they were.
C28_OneRecordPerDate ==
    /\ [](\A x, y \in computed_metrics : x.date = y.date => x = y)
    /\ [][\A c \in Callers :
              session[c].pc = "end" /\ session'[c].pc = "committed"
              => \A w \in session[c].wrote :
                     /\ \E x \in computed_metrics' :
                            x.date = w[1] /\ x.committed /\ x.values = w[2]
                     /\ \A x \in computed_metrics :
                            x.date = w[1] /\ x.committed /\ x.values = w[2]
                            => [x EXCEPT !.update = None] \in computed_metrics']_vars
\* two callers are at the flush of the same date, neither having seen a record, and
\* one of them inserts first
C28_Witness ==
    \E c, d \in Callers :
        /\ c # d
        /\ session[c].pc = "flush" /\ ~session[c].existing
        /\ \E x \in computed_metrics :
               /\ x.date = Head(session[c].dates) /\ x.session = d /\ x.committed
               /\ x.values # session[c].values

\* C29: a broadcast calls send_json exactly once on every connection that is registered
\* from its start to its end, whatever connect, disconnect and other broadcast calls
\* run in between; at its end every connection whose send failed is out of
\* active_connections; and a connection once out of active_connections stays out.
C29_BroadcastReachesEveryConnection ==
    /\ [](\A b \in Broadcasts :
             broadcast[b].pc = "done" =>
                 \A websocket \in broadcast[b].whole :
                     Cardinality({i \in 1..Len(broadcast[b].sent) :
                                     broadcast[b].sent[i] = websocket}) = 1)
    /\ [][\A b \in Broadcasts :
              broadcast'[b].pc = "done" /\ broadcast[b].pc # "done"
              => \A i \in 1..Len(broadcast'[b].disconnected) :
                     \A j \in 1..Len(active_connections') :
                         active_connections'[j] # broadcast'[b].disconnected[i]]_vars
    /\ [][\A websocket \in 1..accepted :
              (\A j \in 1..Len(active_connections) : active_connections[j] # websocket)
              => \A j \in 1..Len(active_connections') :
                     active_connections'[j] # websocket]_vars

====
